---- MODULE Spec2Model ----
(***************************************************************************)
(* Exact arithmetic on sums of radicals: the two classes SqrtFraction      *)
(* (src/sqrtfractions.py) and SumOfRadicals (src/sumofradicals.py).        *)
(*                                                                         *)
(* Python values are records tagged by their class in the field cls:       *)
(*   [cls |-> "SqrtFraction",  n |-> items, d |-> int]                     *)
(*   [cls |-> "SumOfRadicals", n |-> items, d |-> int]                     *)
(*   [cls |-> "int", v |-> int]      [cls |-> "bool", v |-> BOOLEAN]       *)
(*   [cls |-> "Fraction", numerator |-> int, denominator |-> int]          *)
(*   [cls |-> "float", numerator |-> int, denominator |-> int]             *)
(*   [cls |-> "tuple", v |-> sequence]                                     *)
(*   [cls |-> "ZeroDivisionError"], [cls |-> "ValueError"], ... (raised)   *)
(* A dict is the sequence of its items <<key, value>> in insertion order,  *)
(* keys unique; a SqrtFraction key is the radicand, a SumOfRadicals key is *)
(* the pair <<degree, radicand>>.                                          *)
(***************************************************************************)
EXTENDS Integers, Sequences, FiniteSets, TLC

VARIABLES cls, a, b, c, op, args, res

vars == <<cls, a, b, c, op, args, res>>

----------------------------------------------------------------------------
(* Bounds of the model.                                                    *)

\* largest absolute coefficient of an instance the caller keeps
MaxCoef == 1
\* largest denominator of an instance the caller keeps
MaxDen == 2
\* largest number of terms of an instance the caller keeps
MaxTerms == 2
\* largest exponent handed to __pow__ (and -MaxPow the smallest)
MaxPow == 2
\* largest degree handed to simplify_radical
MaxDegree == 4
\* largest radicand handed to simplify_radical
MaxRadicand == 36

----------------------------------------------------------------------------
(* Python builtins and library functions, by what they compute.            *)

Abs(x) == IF x < 0 THEN -x ELSE x

\* list(s): the sequence s with its elements evaluated
list(s) == s \o <<>>

\* x is evaluated here: a Python loop evaluates what it assigns at each pass,
\* not when the result is first read
evaluated(x) == x = x

RECURSIVE gcd2(_, _)
gcd2(x, y) == IF y = 0 THEN Abs(x) ELSE gcd2(y, x % Abs(y))

\* math.gcd(*xs)
RECURSIVE gcd(_)
gcd(xs) == IF xs = <<>> THEN 0 ELSE gcd2(Head(xs), gcd(Tail(xs)))

\* math.lcm(x, y), x, y >= 1
lcm2(x, y) == (x * y) \div gcd2(x, y)

\* math.lcm(*xs)
RECURSIVE lcm(_)
lcm(xs) == IF xs = <<>> THEN 1 ELSE lcm2(Head(xs), lcm(Tail(xs)))

\* x ** e for e >= 0
RECURSIVE IntPow(_, _)
IntPow(x, e) == IF e = 0 THEN 1 ELSE x * IntPow(x, e - 1)

\* math.prod
RECURSIVE prod(_)
prod(xs) == IF xs = <<>> THEN 1 ELSE Head(xs) * prod(Tail(xs))

\* math.isqrt: the floor of the square root, by bisection on [lo, hi)
RECURSIVE isqrt_between(_, _, _)
isqrt_between(k, lo, hi) ==
    IF hi - lo <= 1 THEN lo
    ELSE LET mid == (lo + hi) \div 2
         IN IF mid * mid <= k THEN isqrt_between(k, mid, hi)
                              ELSE isqrt_between(k, lo, mid)

isqrt(k) == isqrt_between(k, 0, (IF k < 46340 THEN k ELSE 46340) + 1)

\* the multiplicity of the prime p in r >= 1
RECURSIVE multiplicity(_, _)
multiplicity(p, r) == IF r % p # 0 THEN 0 ELSE 1 + multiplicity(p, r \div p)

\* the least divisor of r > 1 that is at least p, r having no divisor in
\* 2..p-1: a prime
RECURSIVE least_factor(_, _)
least_factor(r, p) ==
    IF p * p > r THEN r
    ELSE IF r % p = 0 THEN p
    ELSE least_factor(r, p + 1)

\* r without its factors p
RECURSIVE cofactor(_, _)
cofactor(r, p) == IF r % p = 0 THEN cofactor(r \div p, p) ELSE r

\* the primes dividing r, ascending, r having no divisor in 2..p-1
RECURSIVE primefactors_from(_, _)
primefactors_from(r, p) ==
    IF r = 1 THEN <<>>
    ELSE <<least_factor(r, p)>>
         \o primefactors_from(cofactor(r, least_factor(r, p)),
                              least_factor(r, p) + 1)

\* sympy.ntheory.primefactors(r): the primes dividing r, ascending
primefactors(r) == primefactors_from(r, 2)

\* sympy factorint(r): the dict prime:multiplicity, primes ascending
factorint(r) ==
    LET ps == primefactors(r)
    IN list([i \in DOMAIN ps |-> <<ps[i], multiplicity(ps[i], r)>>])

\* sympy core(k): the square-free part of k, the product of the primes of
\* odd multiplicity
core(k) ==
    LET f == factorint(k)
    IN prod([i \in DOMAIN f |-> IF f[i][2] % 2 = 1 THEN f[i][1] ELSE 1])

\* max(xs, default=dflt)
max_default(S, dflt) ==
    IF S = {} THEN dflt ELSE CHOOSE x \in S : \A y \in S : y <= x

----------------------------------------------------------------------------
(* Python dicts.                                                           *)

Range(s) == {s[i] : i \in DOMAIN s}

keys(n) == {n[i][1] : i \in DOMAIN n}

\* list(n.values())
values(n) == list([i \in DOMAIN n |-> n[i][2]])

\* n.get(k, dflt)
dict_get(n, k, dflt) ==
    IF k \in keys(n)
    THEN n[CHOOSE i \in DOMAIN n : n[i][1] = k][2]
    ELSE dflt

\* n[k] += v on a defaultdict(int): a new key is inserted last
dict_iadd(n, k, v) ==
    IF k \in keys(n)
    THEN list([i \in DOMAIN n |->
                 IF n[i][1] = k THEN <<k, n[i][2] + v>> ELSE n[i]])
    ELSE Append(n, <<k, v>>)

\* m == n on dicts: the same items, whatever the insertion order
dict_eq(m, n) == Range(m) = Range(n)

\* dict(sorted(n.items())) of a SqrtFraction: the items by ascending key
SqrtFraction_sorted(n) ==
    list([i \in DOMAIN n |->
             CHOOSE it \in Range(n) :
                 Cardinality({jt \in Range(n) : jt[1] < it[1]}) = i - 1])

\* dict(sorted(n.items())) of a SumOfRadicals: the items by ascending key, a
\* tuple (degree, radicand)
SumOfRadicals_sorted(n) ==
    list([i \in DOMAIN n |->
             CHOOSE it \in Range(n) :
                 Cardinality({jt \in Range(n) :
                     \/ jt[1][1] < it[1][1]
                     \/ jt[1][1] = it[1][1] /\ jt[1][2] < it[1][2]}) = i - 1])

Raise(e) == [cls |-> e]

\* x is an exception raised, not a value returned
IsRaised(x) ==
    x.cls \in {"ZeroDivisionError", "ValueError", "TypeError",
               "NotImplementedError"}

PyInt(i) == [cls |-> "int", v |-> i]

PyBool(t) == [cls |-> "bool", v |-> t]

PyDict(n) == [cls |-> "dict", v |-> n]

NonZero(it) == it[2] # 0

\* {k:v for k, v in n.items()}: the filter "if v" forgotten
keep_zeros(n) == n

\* {k:v for k, v in n.items() if v}
drop_zeros(n) == SelectSeq(n, NonZero)

\* {k:v//cd for k, v in n.items()}
floordiv_values(n, cd) ==
    list([i \in DOMAIN n |-> <<n[i][1], n[i][2] \div cd>>])

\* {k:-v for k, v in n.items()}
neg_values(n) == list([i \in DOMAIN n |-> <<n[i][1], -n[i][2]>>])

\* the loop "short fraction" of both constructors:
\*   while (cd := gcd(*n.values(), d)) > 1: n = {k:v//cd ...}; d //= cd
RECURSIVE short_fraction(_, _)
short_fraction(n, d) ==
    IF gcd(Append(values(n), d)) > 1
    THEN short_fraction(floordiv_values(n, gcd(Append(values(n), d))),
                        d \div gcd(Append(values(n), d)))
    ELSE [n |-> n, d |-> d]

\* the sign of the denominator left as it is: the step "aesthetics" forgotten
no_aesthetics(nd) == nd

\* the step "aesthetics" of both constructors; nd is the pair n, d that
\* "short fraction" leaves
aesthetics(nd) ==
    IF nd.d < 0 THEN [n |-> neg_values(nd.n), d |-> -nd.d] ELSE nd

\* self.n = dict(sorted(n.items())) of SqrtFraction.__init__
SqrtFraction_sort(nd) == [n |-> SqrtFraction_sorted(nd.n), d |-> nd.d]

\* self.n = dict(sorted(n.items())) of SumOfRadicals.__init__
SumOfRadicals_sort(nd) == [n |-> SumOfRadicals_sorted(nd.n), d |-> nd.d]

\* self.n, self.d = n, d on a new instance of the class k
instance(k, nd) == [cls |-> k, n |-> nd.n, d |-> nd.d]

\* the dict a constructor starts from: n itself, or {key:n} for an int n
numerator_items(n, key) == IF n.cls = "int" THEN << <<key, n.v>> >> ELSE n.v

----------------------------------------------------------------------------
(* class SqrtFraction                                                      *)

\* c = core(k); f, k = isqrt(k//c), c of SqrtFraction.__init__: <<f, c>>
SqrtFraction_simplify_radical(k) == <<isqrt(k \div core(k)), core(k)>>

\* the loop "simplify numerator" of SqrtFraction.__init__, acc is _n
RECURSIVE SqrtFraction_simplify_numerator(_, _)
SqrtFraction_simplify_numerator(n, acc) ==
    IF evaluated(acc) /\ n = <<>> THEN acc
    ELSE SqrtFraction_simplify_numerator(
             Tail(n),
             dict_iadd(acc, SqrtFraction_simplify_radical(Head(n)[1])[2],
                       SqrtFraction_simplify_radical(Head(n)[1])[1]
                           * Head(n)[2]))

\* SqrtFraction(n, d): n is a PyInt or a PyDict, d an integer
SqrtFraction(n, d) ==
    IF n.cls = "dict" /\ ~(\A k \in keys(n.v) : k > 0) THEN Raise("ValueError")
    ELSE IF d = 0 THEN Raise("ValueError")
    ELSE instance(
             "SqrtFraction",
             SqrtFraction_sort(aesthetics(
                 short_fraction(
                     drop_zeros(SqrtFraction_simplify_numerator(
                         numerator_items(n, 1), <<>>)),
                     d))))

\* fractions.Fraction(numerator, denominator), denominator # 0: lowest terms,
\* positive denominator
Fraction(numerator, denominator) ==
    LET g == gcd2(numerator, denominator)
        sgn == IF denominator < 0 THEN -1 ELSE 1
    IN [cls |-> "Fraction", numerator |-> sgn * (numerator \div g),
        denominator |-> sgn * (denominator \div g)]

\* Fraction == int, Fraction == Fraction
Fraction_eq(f, other) ==
    IF other.cls = "int" THEN f.numerator = other.v /\ f.denominator = 1
    ELSE f.numerator = other.numerator /\ f.denominator = other.denominator

SqrtFraction_is_integer(self) == keys(self.n) \subseteq {1} /\ self.d = 1

SqrtFraction_int(self) ==
    IF SqrtFraction_is_integer(self) THEN PyInt(dict_get(self.n, 1, 0))
    ELSE Raise("ValueError")

\* is_fraction() taken for is_integer()
SqrtFraction_integers_only(self) == keys(self.n) \subseteq {1} /\ self.d = 1

SqrtFraction_is_fraction(self) == keys(self.n) \subseteq {1}

SqrtFraction_as_fraction(self) ==
    IF SqrtFraction_is_fraction(self)
    THEN Fraction(dict_get(self.n, 1, 0), self.d)
    ELSE Raise("ValueError")

SqrtFraction_len(self) == Len(self.n)

SqrtFraction_eq(self, other) ==
    IF other.cls = "SqrtFraction"
    THEN PyBool(dict_eq(self.n, other.n) /\ self.d = other.d)
    ELSE IF other.cls \in {"int", "Fraction"}
    THEN LET f == SqrtFraction_as_fraction(self)
         IN IF IsRaised(f) THEN PyBool(FALSE) ELSE PyBool(Fraction_eq(f, other))
    ELSE Raise("TypeError")

\* for k, v in items: n[k] += v * scale
RECURSIVE iadd_scaled(_, _, _)
iadd_scaled(n, items, scale) ==
    IF evaluated(n) /\ items = <<>> THEN n
    ELSE iadd_scaled(dict_iadd(n, Head(items)[1], Head(items)[2] * scale),
                     Tail(items), scale)

\* {k:v*other for k, v in self.items()}
mul_values(n, other) ==
    list([i \in DOMAIN n |-> <<n[i][1], n[i][2] * other>>])

\* the sum of the numerators as they are: the factors other.d and self.d
\* forgotten
SqrtFraction_add_unscaled(self, other) ==
    IF other.cls = "SqrtFraction"
    THEN SqrtFraction(
             PyDict(iadd_scaled(iadd_scaled(<<>>, self.n, 1), other.n, 1)),
             self.d * other.d)
    ELSE IF other.cls = "int"
    THEN SqrtFraction(PyDict(dict_iadd(self.n, 1, other.v)), self.d)
    ELSE Raise("TypeError")

SqrtFraction_add(self, other) ==
    IF other.cls = "SqrtFraction"
    THEN SqrtFraction(
             PyDict(iadd_scaled(iadd_scaled(<<>>, self.n, other.d),
                                other.n, self.d)),
             self.d * other.d)
    ELSE IF other.cls = "int"
    THEN SqrtFraction(PyDict(dict_iadd(self.n, 1, other.v * self.d)), self.d)
    ELSE Raise("TypeError")

SqrtFraction_neg(self) == SqrtFraction(PyDict(self.n), -self.d)

\* -other for the operand of __sub__: a SqrtFraction or an int
SqrtFraction_neg_operand(other) ==
    IF other.cls = "SqrtFraction" THEN SqrtFraction_neg(other)
    ELSE IF other.cls = "int" THEN PyInt(-other.v)
    ELSE Raise("TypeError")

SqrtFraction_sub(self, other) ==
    LET m == SqrtFraction_neg_operand(other)
    IN IF IsRaised(m) THEN m ELSE SqrtFraction_add(self, m)

SqrtFraction_rsub(self, other) == SqrtFraction_add(SqrtFraction_neg(self), other)

\* for kj, vj in other.items(): n[ki*kj] += vi * vj
RECURSIVE SqrtFraction_mul_inner(_, _, _, _)
SqrtFraction_mul_inner(n, ki, vi, items) ==
    IF evaluated(n) /\ items = <<>> THEN n
    ELSE SqrtFraction_mul_inner(
             dict_iadd(n, ki * Head(items)[1], vi * Head(items)[2]),
             ki, vi, Tail(items))

\* for ki, vi in self.items(): for kj, vj in other.items(): ...
RECURSIVE SqrtFraction_mul_outer(_, _, _)
SqrtFraction_mul_outer(n, items, others) ==
    IF evaluated(n) /\ items = <<>> THEN n
    ELSE SqrtFraction_mul_outer(
             SqrtFraction_mul_inner(n, Head(items)[1], Head(items)[2], others),
             Tail(items), others)

\* the product over the denominator of self alone: other.d forgotten
SqrtFraction_mul_left_denominator(self, other) ==
    IF other.cls = "SqrtFraction"
    THEN SqrtFraction(PyDict(SqrtFraction_mul_outer(<<>>, self.n, other.n)),
                      self.d)
    ELSE IF other.cls = "int"
    THEN SqrtFraction(PyDict(mul_values(self.n, other.v)), self.d)
    ELSE Raise("TypeError")

SqrtFraction_mul(self, other) ==
    IF other.cls = "SqrtFraction"
    THEN SqrtFraction(PyDict(SqrtFraction_mul_outer(<<>>, self.n, other.n)),
                      self.d * other.d)
    ELSE IF other.cls = "int"
    THEN SqrtFraction(PyDict(mul_values(self.n, other.v)), self.d)
    ELSE Raise("TypeError")

\* Fraction < int
Fraction_lt(f, i) == f.numerator < i * f.denominator

RECURSIVE SqrtFraction_lt(_, _)

\* functools.total_ordering: self >= other is not (self < other)
py_not(t) == IF IsRaised(t) THEN t ELSE PyBool(~t.v)

SqrtFraction_ge(self, other) == py_not(SqrtFraction_lt(self, other))

SqrtFraction_abs(self) ==
    IF SqrtFraction_ge(self, PyInt(0)).v THEN self ELSE SqrtFraction_neg(self)

\* the primes that divide a radicand of l
radicand_primes(l) == UNION {Range(primefactors(k)) : k \in keys(l.n)}

\* the smallest prime of the radicands where the loop wants the largest
lowest_factor(l) ==
    IF radicand_primes(l) = {} THEN 0
    ELSE CHOOSE q \in radicand_primes(l) : \A q2 \in radicand_primes(l) : q <= q2

\* max(max(primefactors(n), default=0) for n in l.keys())
highest_factor(l) ==
    max_default({max_default(Range(primefactors(k)), 0) : k \in keys(l.n)}, 0)

\* {k//p:-v for k, v in l.items() if k%p==0}
pivot_terms(n, p) ==
    LET sel == SelectSeq(n, LAMBDA it : it[1] % p = 0)
    IN list([i \in DOMAIN sel |-> <<sel[i][1] \div p, -sel[i][2]>>])

\* {k:v for k, v in l.items() if k%p!=0}
other_terms(n, p) == SelectSeq(n, LAMBDA it : it[1] % p # 0)

\* x * x, the square that loses the sign
unsigned_square(x) == SqrtFraction_mul(x, x)

\* x * abs(x), the square that keeps the sign
signed_square(x) == SqrtFraction_mul(x, SqrtFraction_abs(x))

\* the body of the while loop of __lt__ once p is chosen: the value l after it
SqrtFraction_lt_body(l, p) ==
    SqrtFraction_sub(
        signed_square(SqrtFraction(PyDict(other_terms(l.n, p)), l.d)),
        SqrtFraction_mul(
            signed_square(SqrtFraction(PyDict(pivot_terms(l.n, p)), l.d)),
            PyInt(p)))

\* one pass of the while loop of __lt__: the value l after it
SqrtFraction_lt_step(l) == SqrtFraction_lt_body(l, highest_factor(l))

\* while not l.is_fraction(): ...
RECURSIVE SqrtFraction_lt_loop(_)
SqrtFraction_lt_loop(l) ==
    IF SqrtFraction_is_fraction(l) THEN l
    ELSE SqrtFraction_lt_loop(SqrtFraction_lt_step(l))

SqrtFraction_lt(self, other) ==
    IF other.cls \in {"SqrtFraction", "int"}
    THEN PyBool(Fraction_lt(
             SqrtFraction_as_fraction(
                 SqrtFraction_lt_loop(SqrtFraction_sub(self, other))), 0))
    ELSE Raise("TypeError")


\* the signs of the tuple of index j - 1: islice(..., 1, None) forgotten, the
\* loop starts at the tuple of the signs of self
conjugate_signs_unsliced(m, j) ==
    list([i \in 1..(m + 1) |->
             IF i > 1 /\ ((j - 1) \div IntPow(2, m + 1 - i)) % 2 = 1
             THEN -1 ELSE 1])

\* the signs (+1,)+p of the tuple p of index j (from 0) of
\* itertools.product((+1, -1), repeat=m)
conjugate_signs(m, j) ==
    list([i \in 1..(m + 1) |->
             IF i > 1 /\ (j \div IntPow(2, m + 1 - i)) % 2 = 1 THEN -1 ELSE 1])

\* {k:s*v for (k, v), s in zip(self.items(), (+1,)+p)}
signed_values(n, signs) ==
    list([i \in DOMAIN n |-> <<n[i][1], signs[i] * n[i][2]>>])

\* r *= x in __invert__: r is the int 1 at first (x.__rmul__), then a SqrtFraction
SqrtFraction_imul(r, x) ==
    IF r.cls = "int" THEN SqrtFraction_mul(x, r) ELSE SqrtFraction_mul(r, x)

\* the for loop of __invert__ from the tuple of index j on, islice(..., 1, None)
\* starting it at j = 1
RECURSIVE SqrtFraction_conjugates(_, _, _)
SqrtFraction_conjugates(self, r, j) ==
    IF evaluated(r) /\ j >= IntPow(2, Len(self.n) - 1) THEN r
    ELSE SqrtFraction_conjugates(
             self,
             SqrtFraction_imul(
                 r,
                 SqrtFraction(
                     PyDict(signed_values(
                         self.n, conjugate_signs(Len(self.n) - 1, j))),
                     1)),
             j + 1)

RECURSIVE SqrtFraction_truediv(_, _)
RECURSIVE SqrtFraction_invert(_)

\* x / i, i the outcome of an int(...) that may have raised
SqrtFraction_truediv_int(x, i) ==
    IF IsRaised(i) THEN i ELSE SqrtFraction_truediv(x, i)

\* return r*self.d: the division by the norm forgotten
SqrtFraction_invert_undivided(self, r) == SqrtFraction_mul(r, PyInt(self.d))

\* return (r*self.d) / int(r*SqrtFraction(self.n)), r the product of the
\* conjugates
SqrtFraction_invert_return(self, r) ==
    SqrtFraction_truediv_int(
        SqrtFraction_mul(r, PyInt(self.d)),
        SqrtFraction_int(SqrtFraction_mul(r, SqrtFraction(PyDict(self.n), 1))))

SqrtFraction_invert(self) ==
    IF SqrtFraction_eq(self, PyInt(0)).v THEN Raise("ZeroDivisionError")
    ELSE IF SqrtFraction_len(self) = 1
    THEN SqrtFraction(PyDict(<< <<self.n[1][1], self.d>> >>),
                      self.n[1][2] * self.n[1][1])
    ELSE SqrtFraction_invert_return(
             self, SqrtFraction_conjugates(self, PyInt(1), 1))

\* the check other == 0 forgotten
SqrtFraction_operand_never_zero(other) == FALSE

\* other == 0 for the operand of __truediv__
SqrtFraction_operand_is_zero(other) ==
    IF other.cls = "SqrtFraction" THEN SqrtFraction_eq(other, PyInt(0)).v
    ELSE IF other.cls = "int" THEN other.v = 0
    ELSE other.numerator = 0

\* self * x, x the outcome of a call that may have raised
SqrtFraction_mul_inverse(self, x) ==
    IF IsRaised(x) THEN x ELSE SqrtFraction_mul(self, x)

SqrtFraction_truediv(self, other) ==
    IF SqrtFraction_operand_is_zero(other) THEN Raise("ZeroDivisionError")
    ELSE IF other.cls = "SqrtFraction"
    THEN SqrtFraction_mul_inverse(self, SqrtFraction_invert(other))
    ELSE IF other.cls = "int"
    THEN SqrtFraction(PyDict(self.n), self.d * other.v)
    ELSE Raise("TypeError")

\* x * other, x the outcome of a call that may have raised
SqrtFraction_mul_outcome(x, other) ==
    IF IsRaised(x) THEN x ELSE SqrtFraction_mul(x, other)

SqrtFraction_rtruediv(self, other) ==
    SqrtFraction_mul_outcome(SqrtFraction_invert(self), other)

\* reduce(mul, repeat(self, other), acc)
RECURSIVE SqrtFraction_reduce_mul(_, _, _)
SqrtFraction_reduce_mul(acc, self, other) ==
    IF evaluated(acc) /\ other = 0 THEN acc
    ELSE SqrtFraction_reduce_mul(SqrtFraction_mul(acc, self), self, other - 1)

\* reduce(mul, repeat(x, other), one), x the outcome of a call that may have
\* raised
SqrtFraction_power(one, x, other) ==
    IF IsRaised(x) THEN x ELSE SqrtFraction_reduce_mul(one, x, other)

\* self ** other, other an integer
SqrtFraction_pow(self, other) ==
    IF other >= 0
    THEN SqrtFraction_power(SqrtFraction(PyInt(1), 1), self, other)
    ELSE SqrtFraction_power(SqrtFraction(PyInt(1), 1),
                            SqrtFraction_invert(self), -other)

----------------------------------------------------------------------------
(* module sumofradicals                                                    *)

\* {pi:ni%n for pi, ni in f.items()}
mod_values(f, n) == list([i \in DOMAIN f |-> <<f[i][1], f[i][2] % n>>])

\* the degree left as it is: the loop "reduce degree" forgotten
keep_degree(f, n) == [f |-> f, n |-> n]

\* the loop "reduce degree" of simplify_radical
RECURSIVE reduce_degree(_, _)
reduce_degree(f, n) ==
    IF gcd(Append(values(f), n)) > 1
    THEN reduce_degree(floordiv_values(f, gcd(Append(values(f), n))),
                       n \div gcd(Append(values(f), n)))
    ELSE [f |-> f, n |-> n]

\* simplify_radical(n, r) = <<s, n', r'>>
\* prod(pi**(ni//n) for pi, ni in f.items())
perfect_powers(f, n) ==
    prod([i \in DOMAIN f |-> IntPow(f[i][1], f[i][2] \div n)])

\* prod(pi**ni for pi, ni in f.items())
radicand(f) == prod([i \in DOMAIN f |-> IntPow(f[i][1], f[i][2])])

\* return s, n, r with f, n as "reduce degree" leaves them
simplified(s, rd) == <<s, rd.n, radicand(rd.f)>>

simplify_radical(n, r) ==
    simplified(perfect_powers(factorint(r), n),
               reduce_degree(mod_values(factorint(r), n), n))

\* _n[(n, r)] += s * v, t the tuple s, n, r
iadd_simplified(acc, t, v) == dict_iadd(acc, <<t[2], t[3]>>, t[1] * v)

\* the loop "simplify numerator" of SumOfRadicals.__init__, acc is _n
RECURSIVE SumOfRadicals_simplify_numerator(_, _)
SumOfRadicals_simplify_numerator(n, acc) ==
    IF evaluated(acc) /\ n = <<>> THEN acc
    ELSE SumOfRadicals_simplify_numerator(
             Tail(n),
             iadd_simplified(
                 acc, simplify_radical(Head(n)[1][1], Head(n)[1][2]),
                 Head(n)[2]))

\* SumOfRadicals(n, d): n is a PyInt or a PyDict, d an integer
SumOfRadicals(n, d) ==
    IF n.cls = "dict" /\ ~(\A k \in keys(n.v) : k[1] >= 1 /\ k[2] >= 1)
    THEN Raise("ValueError")
    ELSE IF d = 0 THEN Raise("ValueError")
    ELSE instance(
             "SumOfRadicals",
             SumOfRadicals_sort(aesthetics(
                 short_fraction(
                     drop_zeros(SumOfRadicals_simplify_numerator(
                         numerator_items(n, <<1, 1>>), <<>>)),
                     d))))

SumOfRadicals_is_integer(self) == keys(self.n) \subseteq {<<1, 1>>} /\ self.d = 1

SumOfRadicals_int(self) ==
    IF SumOfRadicals_is_integer(self) THEN PyInt(dict_get(self.n, <<1, 1>>, 0))
    ELSE Raise("ValueError")

SumOfRadicals_is_fraction(self) == keys(self.n) \subseteq {<<1, 1>>}

SumOfRadicals_as_fraction(self) ==
    IF SumOfRadicals_is_fraction(self)
    THEN Fraction(dict_get(self.n, <<1, 1>>, 0), self.d)
    ELSE Raise("ValueError")

SumOfRadicals_eq(self, other) ==
    IF other.cls = "SumOfRadicals"
    THEN PyBool(dict_eq(self.n, other.n) /\ self.d = other.d)
    ELSE IF other.cls \in {"int", "Fraction"}
    THEN LET f == SumOfRadicals_as_fraction(self)
         IN IF IsRaised(f) THEN PyBool(FALSE) ELSE PyBool(Fraction_eq(f, other))
    ELSE Raise("TypeError")

SumOfRadicals_add(self, other) ==
    IF other.cls = "SumOfRadicals"
    THEN SumOfRadicals(
             PyDict(iadd_scaled(iadd_scaled(<<>>, self.n, other.d),
                                other.n, self.d)),
             self.d * other.d)
    ELSE IF other.cls = "int"
    THEN SumOfRadicals(PyDict(dict_iadd(self.n, <<1, 1>>, other.v * self.d)), self.d)
    ELSE Raise("TypeError")

SumOfRadicals_neg(self) == SumOfRadicals(PyDict(self.n), -self.d)

\* -other for the operand of __sub__: a SumOfRadicals or an int
SumOfRadicals_neg_operand(other) ==
    IF other.cls = "SumOfRadicals" THEN SumOfRadicals_neg(other)
    ELSE IF other.cls = "int" THEN PyInt(-other.v)
    ELSE Raise("TypeError")

SumOfRadicals_sub(self, other) ==
    LET m == SumOfRadicals_neg_operand(other)
    IN IF IsRaised(m) THEN m ELSE SumOfRadicals_add(self, m)

SumOfRadicals_rsub(self, other) == SumOfRadicals_add(SumOfRadicals_neg(self), other)

\* for (nj, rj), vj in other.items():
\*     nk = lcm(ni, nj); r = ri**(nk//ni) * rj**(nk//nj); n[(nk, r)] += vi * vj
RECURSIVE SumOfRadicals_mul_inner(_, _, _, _)
SumOfRadicals_mul_inner(n, ki, vi, items) ==
    IF evaluated(n) /\ items = <<>> THEN n
    ELSE LET kj == Head(items)[1]
             nk == lcm(<<ki[1], kj[1]>>)
             r == IntPow(ki[2], nk \div ki[1]) * IntPow(kj[2], nk \div kj[1])
         IN SumOfRadicals_mul_inner(
                dict_iadd(n, <<nk, r>>, vi * Head(items)[2]),
                ki, vi, Tail(items))

\* for (ni, ri), vi in self.items(): for (nj, rj), vj in other.items(): ...
RECURSIVE SumOfRadicals_mul_outer(_, _, _)
SumOfRadicals_mul_outer(n, items, others) ==
    IF evaluated(n) /\ items = <<>> THEN n
    ELSE SumOfRadicals_mul_outer(
             SumOfRadicals_mul_inner(n, Head(items)[1], Head(items)[2], others),
             Tail(items), others)

SumOfRadicals_mul(self, other) ==
    IF other.cls = "SumOfRadicals"
    THEN SumOfRadicals(PyDict(SumOfRadicals_mul_outer(<<>>, self.n, other.n)),
                       self.d * other.d)
    ELSE IF other.cls = "int"
    THEN SumOfRadicals(PyDict(mul_values(self.n, other.v)), self.d)
    ELSE Raise("TypeError")

SumOfRadicals_lt(self, other) == Raise("NotImplementedError")

\* SumOfRadicals.factorise_radical(n, r): the dict p:Fraction(e, n)
factorise_radical(n, r) ==
    LET f == factorint(r)
    IN list([i \in DOMAIN f |-> <<f[i][1], Fraction(f[i][2], n)>>])

\* x + y on the values of __invert__: ints and SumOfRadicals (int + instance
\* is instance.__radd__)
SumOfRadicals_py_add(x, y) ==
    IF IsRaised(x) THEN x
    ELSE IF IsRaised(y) THEN y
    ELSE IF x.cls = "int" /\ y.cls = "int" THEN PyInt(x.v + y.v)
    ELSE IF "SumOfRadicals" \in {x.cls, y.cls}
    THEN SumOfRadicals_add(IF x.cls = "SumOfRadicals" THEN x ELSE y,
                           IF x.cls = "SumOfRadicals" THEN y ELSE x)
    ELSE Raise("TypeError")

\* x * y on the values of __invert__: ints and SumOfRadicals (int * instance
\* is instance.__rmul__)
SumOfRadicals_py_mul(x, y) ==
    IF IsRaised(x) THEN x
    ELSE IF IsRaised(y) THEN y
    ELSE IF x.cls = "int" /\ y.cls = "int" THEN PyInt(x.v * y.v)
    ELSE IF "SumOfRadicals" \in {x.cls, y.cls}
    THEN SumOfRadicals_mul(IF x.cls = "SumOfRadicals" THEN x ELSE y,
                           IF x.cls = "SumOfRadicals" THEN y ELSE x)
    ELSE Raise("TypeError")

\* SumOfRadicals.vectorise(s, degree, radical), vec the list c so far and items
\* the items of s still to visit; c[i] of the code is vec[i + 1] here
\* c[i] += t
vectorise_iadd(vec, i, t) ==
    list([vec EXCEPT ![i + 1] = SumOfRadicals_py_add(vec[i + 1], t)])

\* radical in f and degree % f[radical].denominator == 0, f the factorisation
\* of the term
vectorise_has(f, degree, radical) ==
    radical \in keys(f) /\ degree % dict_get(f, radical, 0).denominator = 0

\* the body of the for loop of vectorise for the term ((n, r), v) of s, f its
\* factorisation and fr the exponent f[radical]: the list c after it
vectorise_term(vec, n, r, v, d, degree, radical, has, fr) ==
    vectorise_iadd(
        vec,
        IF has THEN (fr.numerator * degree) \div fr.denominator ELSE 0,
        SumOfRadicals(
            PyDict(<< << <<n, IF has
                              THEN r \div IntPow(radical,
                                       (fr.numerator * n) \div fr.denominator)
                              ELSE r>>, v>> >>),
            d))

RECURSIVE vectorise_loop(_, _, _, _, _)
vectorise_loop(vec, items, d, degree, radical) ==
    IF evaluated(vec) /\ items = <<>> THEN vec
    ELSE vectorise_loop(
             vectorise_term(
                 vec, Head(items)[1][1], Head(items)[1][2], Head(items)[2], d,
                 degree, radical,
                 vectorise_has(
                     factorise_radical(Head(items)[1][1], Head(items)[1][2]),
                     degree, radical),
                 dict_get(factorise_radical(Head(items)[1][1], Head(items)[1][2]),
                          radical, 0)),
             Tail(items), d, degree, radical)

vectorise(s, degree, radical) ==
    vectorise_loop(list([i \in 1..degree |-> PyInt(0)]), s.n, s.d, degree,
                   radical)

\* SumOfRadicals.circulant_n(c, n), vec the list c: scipy's circulant(c)[i][j] is c[(i-j) % N];
\* n*np.triu(C, 1) + np.tril(C), the parts cut away being the int 0
circulant_n(vec, n) ==
    LET N == Len(vec)
        C(i, j) == vec[((i - j) % N) + 1]
    IN list([i \in 1..N |-> list([j \in 1..N |->
           SumOfRadicals_py_add(
               SumOfRadicals_py_mul(
                   PyInt(n), IF j > i THEN C(i, j) ELSE PyInt(0)),
               IF j > i THEN PyInt(0) ELSE C(i, j))])])

\* linalg.minor_laplace: the matrix without row i and column j
minor_laplace(M, i, j) ==
    LET N == Len(M)
    IN list([k \in 1..(N - 1) |-> list([l \in 1..(N - 1) |->
           M[IF k < i THEN k ELSE k + 1][IF l < j THEN l ELSE l + 1]])])

\* linalg.det_laplace: the determinant by cofactor expansion along the first
\* row
RECURSIVE det_laplace(_)
RECURSIVE det_laplace_sum(_, _, _)
det_laplace_sum(M, j, acc) ==
    IF evaluated(acc) /\ j > Len(M) THEN acc
    ELSE det_laplace_sum(
             M, j + 1,
             SumOfRadicals_py_add(
                 acc,
                 SumOfRadicals_py_mul(
                     PyInt(IF j % 2 = 1 THEN 1 ELSE -1),
                     SumOfRadicals_py_mul(
                         M[1][j], det_laplace(minor_laplace(M, 1, j))))))

det_laplace(M) ==
    IF Len(M) = 1 THEN M[1][1] ELSE det_laplace_sum(M, 1, PyInt(0))

\* max(chain(*(f.keys() for f in factorisations)))
highest_radical(denominator) ==
    max_default(
        UNION {keys(factorise_radical(k[1], k[2])) : k \in keys(denominator.n)},
        0)

\* lcm(*(f[r].denominator for f in factorisations if r in f))
radical_degree(denominator, r) ==
    LET ks == SelectSeq(denominator.n,
                        LAMBDA it : r \in keys(factorise_radical(it[1][1], it[1][2])))
    IN lcm(list([i \in DOMAIN ks |->
               dict_get(factorise_radical(ks[i][1][1], ks[i][1][2]),
                        r, 0).denominator]))

\* the body of the while loop of __invert__: the factor by which numerator and
\* denominator are multiplied
\* C[0,:] = [SumOfRadicals({(n, r**i):1}) for i in range(n)]
first_row_replaced(C, n, r) ==
    list([C EXCEPT ![1] =
        list([j \in 1..Len(C) |->
            SumOfRadicals(PyDict(<< << <<n, IntPow(r, j - 1)>>, 1>> >>), 1)])])

\* the factor once the radical r and its degree n are chosen
eliminate_degree(denominator, r, n) ==
    det_laplace(
        first_row_replaced(circulant_n(vectorise(denominator, n, r), r), n, r))

\* the factor once the radical r is chosen
eliminate_radical(denominator, r) ==
    eliminate_degree(denominator, r, radical_degree(denominator, r))

elimination_factor(denominator) ==
    eliminate_radical(denominator, highest_radical(denominator))

\* while not denominator.is_fraction(): ...
RECURSIVE SumOfRadicals_invert_loop(_, _)

\* numerator *= factor; denominator *= factor, and the loop again
SumOfRadicals_invert_body(numerator, denominator, factor) ==
    SumOfRadicals_invert_loop(SumOfRadicals_py_mul(numerator, factor),
                              SumOfRadicals_py_mul(denominator, factor))

SumOfRadicals_invert_loop(numerator, denominator) ==
    IF evaluated(numerator) /\ IsRaised(denominator)
    THEN <<numerator, denominator>>
    ELSE IF SumOfRadicals_is_fraction(denominator)
    THEN <<numerator, denominator>>
    ELSE SumOfRadicals_invert_body(
             numerator, denominator, elimination_factor(denominator))

RECURSIVE SumOfRadicals_truediv(_, _)
RECURSIVE SumOfRadicals_invert(_)

\* int / int: a float, or ZeroDivisionError
int_truediv(x, y) ==
    IF y = 0 THEN Raise("ZeroDivisionError")
    ELSE [cls |-> "float", numerator |-> x, denominator |-> y]

\* return numerator * denominator.denominator / denominator.numerator, the
\* numerator an int or a SumOfRadicals and the denominator a Fraction
SumOfRadicals_invert_return(numerator, denominator) ==
    IF numerator.cls = "int"
    THEN int_truediv(numerator.v * denominator.denominator,
                     denominator.numerator)
    ELSE SumOfRadicals_truediv(
             SumOfRadicals_mul(numerator, PyInt(denominator.denominator)),
             PyInt(denominator.numerator))

\* denominator = denominator.as_fraction() and the return, nd the pair the
\* while loop leaves
SumOfRadicals_invert_end(nd) ==
    IF IsRaised(nd[2]) THEN nd[2]
    ELSE SumOfRadicals_invert_return(nd[1], SumOfRadicals_as_fraction(nd[2]))

SumOfRadicals_invert(self) ==
    SumOfRadicals_invert_end(
        SumOfRadicals_invert_loop(
            PyInt(self.d), SumOfRadicals_mul(self, PyInt(self.d))))

\* other == 0 for the operand of __truediv__
SumOfRadicals_operand_is_zero(other) ==
    IF other.cls = "SumOfRadicals" THEN SumOfRadicals_eq(other, PyInt(0)).v
    ELSE IF other.cls = "int" THEN other.v = 0
    ELSE other.numerator = 0

\* self * x, x the outcome of a call that may have raised
SumOfRadicals_mul_outcome(self, x) ==
    IF IsRaised(x) THEN x ELSE SumOfRadicals_mul(self, x)

SumOfRadicals_truediv(self, other) ==
    IF SumOfRadicals_operand_is_zero(other) THEN Raise("ZeroDivisionError")
    ELSE IF other.cls = "SumOfRadicals"
    THEN SumOfRadicals_mul_outcome(self, SumOfRadicals_invert(other))
    ELSE IF other.cls = "int"
    THEN SumOfRadicals(PyDict(self.n), self.d * other.v)
    ELSE Raise("TypeError")

\* float * int, float * float
float_mul(x, other) ==
    IF other.cls = "int"
    THEN [cls |-> "float", numerator |-> x.numerator * other.v,
          denominator |-> x.denominator]
    ELSE IF other.cls = "float"
    THEN [cls |-> "float", numerator |-> x.numerator * other.numerator,
          denominator |-> x.denominator * other.denominator]
    ELSE IF other.cls = "SumOfRadicals" THEN Raise("TypeError")
    ELSE Raise("TypeError")

\* (~self) * other: ~self is a SumOfRadicals or a float
\* x * other, x what ~self returned or raised
SumOfRadicals_inverse_mul(x, other) ==
    IF IsRaised(x) THEN x
    ELSE IF x.cls = "float" THEN float_mul(x, other)
    ELSE SumOfRadicals_mul(x, other)

SumOfRadicals_rtruediv(self, other) ==
    SumOfRadicals_inverse_mul(SumOfRadicals_invert(self), other)

\* reduce(mul, repeat(self, other), acc)
RECURSIVE SumOfRadicals_reduce_mul(_, _, _)
SumOfRadicals_reduce_mul(acc, self, other) ==
    IF evaluated(acc) /\ other = 0 THEN acc
    ELSE SumOfRadicals_reduce_mul(SumOfRadicals_mul(acc, self), self, other - 1)

\* float ** int, the exponent positive
float_pow(x, other) ==
    [cls |-> "float", numerator |-> IntPow(x.numerator, other),
     denominator |-> IntPow(x.denominator, other)]

\* self ** other, other an integer; ~self is a SumOfRadicals or a float
SumOfRadicals_power(one, x, other) ==
    IF IsRaised(x) THEN x
    ELSE IF x.cls = "float" THEN float_pow(x, other)
    ELSE SumOfRadicals_reduce_mul(one, x, other)

SumOfRadicals_pow(self, other) ==
    IF other >= 0
    THEN SumOfRadicals_power(SumOfRadicals(PyInt(1), 1), self, other)
    ELSE SumOfRadicals_power(SumOfRadicals(PyInt(1), 1),
                             SumOfRadicals_invert(self), -other)

----------------------------------------------------------------------------
(* Python's dispatch of an operator on the class of its left operand.      *)

Classes == {"SqrtFraction", "SumOfRadicals"}

\* k(n, d) for the class k
New(k, n, d) ==
    IF k = "SqrtFraction" THEN SqrtFraction(n, d) ELSE SumOfRadicals(n, d)

add(self, other) ==
    IF self.cls = "SqrtFraction" THEN SqrtFraction_add(self, other)
    ELSE SumOfRadicals_add(self, other)

neg(self) ==
    IF self.cls = "SqrtFraction" THEN SqrtFraction_neg(self)
    ELSE SumOfRadicals_neg(self)

sub(self, other) ==
    IF self.cls = "SqrtFraction" THEN SqrtFraction_sub(self, other)
    ELSE SumOfRadicals_sub(self, other)

rsub(self, other) ==
    IF self.cls = "SqrtFraction" THEN SqrtFraction_rsub(self, other)
    ELSE SumOfRadicals_rsub(self, other)

mul(self, other) ==
    IF self.cls = "SqrtFraction" THEN SqrtFraction_mul(self, other)
    ELSE SumOfRadicals_mul(self, other)

invert(self) ==
    IF self.cls = "SqrtFraction" THEN SqrtFraction_invert(self)
    ELSE SumOfRadicals_invert(self)

truediv(self, other) ==
    IF self.cls = "SqrtFraction" THEN SqrtFraction_truediv(self, other)
    ELSE SumOfRadicals_truediv(self, other)

rtruediv(self, other) ==
    IF self.cls = "SqrtFraction" THEN SqrtFraction_rtruediv(self, other)
    ELSE SumOfRadicals_rtruediv(self, other)

pow(self, other) ==
    IF self.cls = "SqrtFraction" THEN SqrtFraction_pow(self, other)
    ELSE SumOfRadicals_pow(self, other)

eq(self, other) ==
    IF self.cls = "SqrtFraction" THEN SqrtFraction_eq(self, other)
    ELSE SumOfRadicals_eq(self, other)

lt(self, other) ==
    IF self.cls = "SqrtFraction" THEN SqrtFraction_lt(self, other)
    ELSE SumOfRadicals_lt(self, other)

is_fraction(self) ==
    IF self.cls = "SqrtFraction" THEN SqrtFraction_is_fraction(self)
    ELSE SumOfRadicals_is_fraction(self)

as_fraction(self) ==
    IF self.cls = "SqrtFraction" THEN SqrtFraction_as_fraction(self)
    ELSE SumOfRadicals_as_fraction(self)

is_integer(self) ==
    IF self.cls = "SqrtFraction" THEN SqrtFraction_is_integer(self)
    ELSE SumOfRadicals_is_integer(self)

int(self) ==
    IF self.cls = "SqrtFraction" THEN SqrtFraction_int(self)
    ELSE SumOfRadicals_int(self)

----------------------------------------------------------------------------
(* The program: a caller that builds an instance and combines it with      *)
(* others.  a is the instance it keeps, b the other operand of the last    *)
(* call, op the call, res what it returned or raised, args the arguments   *)
(* of the last constructor call.                                           *)

None == [cls |-> "NoneType"]

\* the int operands
IntOperands == {PyInt(-1), PyInt(0), PyInt(2)}

\* the numerators the caller hands to the constructor of the class k
Numerators(k) ==
    IF k = "SqrtFraction"
    THEN {PyInt(2), PyDict(<< <<8, 1>> >>), PyDict(<< <<3, -1>> >>)}
    ELSE {PyInt(2), PyDict(<< << <<4, 9>>, 1>> >>),
          PyDict(<< << <<3, 16>>, -1>> >>)}

\* the denominators the caller hands to the constructor
Denominators == {-2, 0, 1}

\* the instances of the class k the caller builds as operands
Operands(k) ==
    {x \in {New(k, n, d) : n \in Numerators(k), d \in Denominators} :
        ~IsRaised(x)}

Init ==
    /\ cls \in Classes
    /\ a = New(cls, PyInt(0), 1)
    /\ b = None
    /\ c = None
    /\ op = "init"
    /\ args = None
    /\ res = None

\* a = r after the constructor call with the arguments arg, unless it raised
Load(arg, r) ==
    /\ a' = IF IsRaised(r) THEN a ELSE r
    /\ b' = None
    /\ op' = "__init__"
    /\ args' = arg
    /\ res' = r
    /\ UNCHANGED <<cls, c>>

\* a = cls(n, d)
Create ==
    \E n \in Numerators(cls), d \in Denominators :
        Load(<<n, d>>, New(cls, n, d))

\* a = r after the call o with the other operand other, unless it raised or
\* returned no instance; the caller keeps the instances within the bounds
Assign(o, other, r) ==
    /\ r.cls \in Classes =>
           /\ Len(r.n) <= MaxTerms
           /\ \A i \in DOMAIN r.n : Abs(r.n[i][2]) <= MaxCoef
           /\ r.d <= MaxDen
    /\ a' = IF r.cls \in Classes THEN r ELSE a
    /\ b' = other
    /\ op' = o
    /\ args' = None
    /\ res' = r
    /\ UNCHANGED <<cls, c>>

\* a = a + other
Add == \E other \in Operands(cls) \cup IntOperands :
           Assign("__add__", other, add(a, other))

\* a = -a
Neg == Assign("__neg__", None, neg(a))

\* a = a - other
Sub == \E other \in Operands(cls) \cup IntOperands :
           Assign("__sub__", other, sub(a, other))

\* a = i - a
RSub == \E i \in IntOperands : Assign("__rsub__", i, rsub(a, i))

\* a = a * other
Mul == \E other \in Operands(cls) \cup IntOperands :
           Assign("__mul__", other, mul(a, other))

\* a = a / i
TrueDivInt == \E i \in IntOperands : Assign("__truediv__", i, truediv(a, i))

\* a = a ** k
Pow == \E k \in (-MaxPow)..MaxPow : Assign("__pow__", PyInt(k), pow(a, k))

Next ==
    \/ Create
    \/ Add
    \/ Neg
    \/ Sub
    \/ RSub
    \/ Mul
    \/ TrueDivInt
    \/ Pow

Spec == Init /\ [][Next]_vars

----------------------------------------------------------------------------
(* The constructors on raw input: a caller that draws the arguments        *)
(* (n, d), calls the helper of the constructor on a raw key or builds the  *)
(* instance a, and then builds b from arguments c that denote the same     *)
(* value, or reads a back.                                                 *)

MaxInt == 6

\* the raw coefficients
RawCoefficients == {-2, 0, 1, 3}

\* the raw denominators, the invalid 0 among them
RawDenominators == {-6, 0, 1, 4}

\* the raw keys of the class k: radicands, or tuples (degree, radicand)
RawKeys(k) ==
    IF k = "SqrtFraction" THEN 1..MaxRadicand
    ELSE (1..MaxDegree) \X (1..MaxRadicand)

\* the raw keys of the two-term numerators of the class k
PairKeys(k) ==
    IF k = "SqrtFraction"
    THEN {<<2, 8>>, <<1, 4>>, <<3, 2>>, <<12, 3>>}
    ELSE {<< <<2, 2>>, <<2, 8>> >>, << <<1, 1>>, <<3, 8>> >>,
          << <<3, 2>>, <<2, 3>> >>, << <<4, 4>>, <<2, 2>> >>}

\* the raw numerators of the class k: an int, or a dict of one or two items
RawNumerators(k) ==
    {PyInt(i) : i \in (-MaxInt)..MaxInt}
        \cup {PyDict(<< <<key, v>> >>) : key \in RawKeys(k),
                                         v \in RawCoefficients}
        \cup {PyDict(<< <<p[1], v>>, <<p[2], w>> >>) :
                  p \in PairKeys(k), v \in RawCoefficients,
                  w \in RawCoefficients}

BuildInit ==
    /\ cls \in Classes
    /\ a = None
    /\ b = None
    /\ c = None
    /\ op = "init"
    /\ args \in {<<n, d>> : n \in RawNumerators(cls), d \in RawDenominators}
    /\ res = None

\* a = cls(n, d) for the arguments drawn
Build == op = "init" /\ Load(args, New(cls, args[1], args[2]))

\* the helper of the constructor on a raw key of the arguments:
\* simplify_radical(n, r), or core and isqrt
Simplify ==
    /\ op = "init"
    /\ args[1].cls = "dict"
    /\ \E i \in DOMAIN args[1].v :
           /\ b' = args[1].v[i][1]
           /\ res' = IF cls = "SqrtFraction"
                     THEN SqrtFraction_simplify_radical(args[1].v[i][1])
                     ELSE simplify_radical(args[1].v[i][1][1],
                                           args[1].v[i][1][2])
    /\ op' = "simplify_radical"
    /\ UNCHANGED <<cls, a, c, args>>

\* b = cls(n, d) for the arguments raw = (n, d), compared with a
Rewritten(o, raw) ==
    /\ op = "__init__"
    /\ a.cls \in Classes
    /\ b' = New(cls, raw[1], raw[2])
    /\ c' = raw
    /\ op' = o
    /\ res' = eq(a, b')
    /\ UNCHANGED <<cls, a, args>>

\* the numerator n with every coefficient multiplied by k
ScaledNumerator(n, k) ==
    IF n.cls = "int" THEN PyInt(n.v * k) ELSE PyDict(mul_values(n.v, k))

\* the key with the radicand multiplied by the power of m of its degree
RaisedKey(k, key, m) ==
    IF k = "SqrtFraction" THEN key * m * m
    ELSE <<key[1], key[2] * IntPow(m, key[1])>>

\* (i) every coefficient and d multiplied by the same nonzero k
Scale ==
    \E k \in {-3, -1, 2} :
        Rewritten("scale", <<ScaledNumerator(args[1], k), args[2] * k>>)

\* (ii) the item of index i, radicand r and coefficient m*v, replaced by the
\* radicand r*m^n with the coefficient v
Extract ==
    /\ args[1].cls = "dict"
    /\ \E i \in DOMAIN args[1].v, m \in 2..3 :
           /\ args[1].v[i][2] % m = 0
           /\ RaisedKey(cls, args[1].v[i][1], m) \notin keys(args[1].v)
           /\ Rewritten("extract",
                 <<PyDict([args[1].v EXCEPT
                       ![i] = <<RaisedKey(cls, args[1].v[i][1], m),
                                args[1].v[i][2] \div m>>]),
                   args[2]>>)

\* (iii) the coefficient of the item of index i split across its key and the
\* key with the radicand r*m^n
Split ==
    /\ args[1].cls = "dict"
    /\ \E i \in DOMAIN args[1].v, m \in 2..3, w \in {-1, 2} :
           /\ RaisedKey(cls, args[1].v[i][1], m) \notin keys(args[1].v)
           /\ Rewritten("split",
                 <<PyDict(Append(
                       [args[1].v EXCEPT
                           ![i] = <<args[1].v[i][1],
                                    args[1].v[i][2] - m * w>>],
                       <<RaisedKey(cls, args[1].v[i][1], m), w>>)),
                   args[2]>>)

\* (iv) cls(a.n, a.d)
Rebuild == Rewritten("rebuild", <<PyDict(a.n), a.d>>)

\* the tests "creation & evaluation": a built from an int n
Evaluate ==
    /\ op = "__init__"
    /\ a.cls \in Classes
    /\ args[1].cls = "int"
    /\ op' = "evaluate"
    /\ res' = [is_fraction |-> is_fraction(a),
               as_fraction |-> as_fraction(a),
               is_integer |-> is_integer(a),
               int |-> int(a),
               eq |-> eq(a, args[1])]
    /\ UNCHANGED <<cls, a, b, c, args>>

BuildNext ==
    \/ Build
    \/ Simplify
    \/ Scale
    \/ Extract
    \/ Split
    \/ Rebuild
    \/ Evaluate

SpecBuild == BuildInit /\ [][BuildNext]_vars

----------------------------------------------------------------------------
(* The arithmetic on given operands: a caller that holds the instances a,  *)
(* b and c of one class and evaluates one expression on them.              *)

\* the instances of the class k the caller holds
LawOperands(k) ==
    IF k = "SqrtFraction"
    THEN {SqrtFraction(PyInt(0), 1),
          SqrtFraction(PyInt(2), 1),
          SqrtFraction(PyDict(<< <<1, 1>>, <<2, 1>> >>), 1),
          SqrtFraction(PyDict(<< <<2, 1>>, <<3, 1>> >>), 1),
          SqrtFraction(PyDict(<< <<6, 1>> >>), 1),
          SqrtFraction(PyDict(<< <<1, 3>>, <<2, -1>> >>), 4)}
    ELSE {SumOfRadicals(PyInt(0), 1),
          SumOfRadicals(PyInt(2), 1),
          SumOfRadicals(PyInt(3), 4),
          SumOfRadicals(PyDict(<< << <<2, 2>>, 1>> >>), 1),
          SumOfRadicals(PyDict(<< << <<1, 1>>, 1>>, << <<3, 2>>, 1>> >>), 1),
          SumOfRadicals(PyDict(<< << <<2, 3>>, 1>>, << <<3, 2>>, -1>> >>), 2)}

LawsInit ==
    /\ cls \in Classes
    /\ a \in LawOperands(cls)
    /\ b \in LawOperands(cls)
    /\ c \in LawOperands(cls)
    /\ op = "init"
    /\ args = None
    /\ res = None

\* res = r after the expression o is evaluated, other its second operand
Outcome(o, other, r) ==
    /\ op = "init"
    /\ b' = other
    /\ op' = o
    /\ res' = r
    /\ UNCHANGED <<cls, a, c, args>>

Invert == Outcome("~a", b, invert(a))

\* a * ~a: no product once ~a raised
InvertMul ==
    Outcome("a * ~a", b,
            IF IsRaised(invert(a)) THEN invert(a) ELSE mul(a, invert(a)))

TrueDivSelf == Outcome("a / a", b, truediv(a, a))

TrueDiv ==
    \E other \in {b} \cup IntOperands :
        Outcome("a / b", other, truediv(a, other))

RTrueDiv == \E i \in IntOperands : Outcome("i / a", i, rtruediv(a, i))

PowNegative ==
    \E k \in 1..MaxPow : Outcome("a ** k", PyInt(-k), pow(a, -k))

Lt == Outcome("a < b", b, <<lt(a, b), eq(a, b), lt(b, a)>>)

LtInt == \E i \in IntOperands : Outcome("a < i", i, <<lt(a, i), eq(a, i)>>)

Distribute ==
    Outcome("a * (b + c)", b, <<mul(a, add(b, c)), add(mul(a, b), mul(a, c))>>)

Commute ==
    Outcome("a + b, a * b", b,
            <<add(a, b), add(b, a), mul(a, b), mul(b, a)>>)

Associate ==
    Outcome("(a + b) + c, (a * b) * c", b,
            <<add(add(a, b), c), add(a, add(b, c)),
              mul(mul(a, b), c), mul(a, mul(b, c))>>)

\* the arithmetic of a with the int i and with the instance built from i;
\* i + a and i * a are __radd__ = __add__ and __rmul__ = __mul__ on a
IntOperand ==
    \E i \in IntOperands :
        Outcome("a + i", i,
                [add |-> add(a, i), radd |-> add(a, i),
                 add_built |-> add(a, New(cls, i, 1)),
                 sub |-> sub(a, i), sub_built |-> sub(a, New(cls, i, 1)),
                 rsub |-> rsub(a, i), rsub_built |-> sub(New(cls, i, 1), a),
                 mul |-> mul(a, i), rmul |-> mul(a, i),
                 mul_built |-> mul(a, New(cls, i, 1)),
                 truediv |-> truediv(a, i),
                 truediv_built |-> truediv(a, New(cls, i, 1)),
                 rtruediv |-> rtruediv(a, i),
                 rtruediv_built |-> truediv(New(cls, i, 1), a)])

\* x * other, x what ~a or a ** k left: an exception, a float or an instance
mul_outcome(x, other) ==
    IF IsRaised(x) THEN x
    ELSE IF x.cls = "float" THEN float_mul(x, other)
    ELSE mul(x, other)

\* x ** k for k >= 0, x what ~a left
pow_outcome(x, k) ==
    IF IsRaised(x) THEN x
    ELSE IF x.cls = "float" THEN float_pow(x, k)
    ELSE pow(x, k)

\* a ** k, (a ** k) * a and a ** (k+1), and a ** -k, (~a) ** k and
\* (a ** -k) * (a ** k), for an int k >= 0
Power ==
    \E k \in 0..MaxPow :
        Outcome("a ** k * a", PyInt(k),
                [pow |-> pow(a, k),
                 pow_mul |-> mul(pow(a, k), a),
                 pow_next |-> pow(a, k + 1),
                 neg |-> pow(a, -k),
                 inverse_pow |-> pow_outcome(invert(a), k),
                 neg_mul |-> mul_outcome(pow(a, -k), pow(a, k))])

\* r after the for loop of SqrtFraction.__invert__ on x
conjugate_product(x) == SqrtFraction_conjugates(x, PyInt(1), 1)

\* r * SqrtFraction(self.n) of the return of SqrtFraction.__invert__ on x
conjugate_norm(x) ==
    SqrtFraction_mul(conjugate_product(x), SqrtFraction(PyDict(x.n), 1))

\* ~x for x one of a, a + b and a + b - c with two terms or more: the product
\* of the loop, its product with the numerator, int() of it and ~x
Norm ==
    /\ cls = "SqrtFraction"
    /\ \E x \in {a, add(a, b), sub(add(a, b), c)} :
          /\ SqrtFraction_len(x) >= 2
          /\ Outcome("int(r * SqrtFraction(n))", x,
                     [r |-> conjugate_product(x),
                      norm |-> conjugate_norm(x),
                      int |-> SqrtFraction_int(conjugate_norm(x)),
                      inverse |-> SqrtFraction_invert(x)])

LawsNext ==
    \/ Invert
    \/ InvertMul
    \/ TrueDivSelf
    \/ TrueDiv
    \/ RTrueDiv
    \/ PowNegative
    \/ Lt
    \/ LtInt
    \/ Distribute
    \/ Commute
    \/ Associate

SpecLaws == LawsInit /\ [][LawsNext]_vars

\* the program of the int operand, the powers and the conjugates, on the
\* operands of the laws
OperandsNext ==
    \/ IntOperand
    \/ Power
    \/ Norm

SpecOperands == LawsInit /\ [][OperandsNext]_vars

----------------------------------------------------------------------------
(* The dicts as objects.  A heap h is the sequence of the dicts allocated  *)
(* so far, a dict is named by its index in it, and an instance refers to   *)
(* its numerator by that index: [cls, n |-> index, d].  A call returns     *)
(* [heap, ret]: the heap it leaves and the reference or value it returns   *)
(* or the exception it raises.  The statements that store into a dict are  *)
(* the loops of __init__, __add__ and __mul__; every other method reaches  *)
(* the heap through these three, and its calls on instances it made itself *)
(* are taken by their value.                                               *)

\* the instance the reference x names in the heap h, or the value x itself
deref(h, x) ==
    IF x.cls \in Classes THEN [cls |-> x.cls, n |-> h[x.n], d |-> x.d] ELSE x

\* n = self.n: the name n bound to the dict of self itself, no copy made
defaultdict_alias(h, oid) == [heap |-> h, n |-> oid]

\* n = defaultdict(int, self.n): a new dict with the items of the dict oid
defaultdict_copy(h, oid) == [heap |-> Append(h, h[oid]), n |-> Len(h) + 1]

\* self.n, self.d = n, d at the end of __init__, nd the pair the steps
\* "short fraction", "aesthetics" and sorted leave: each builds a new dict
obj_assign(k, h, nd) ==
    [heap |-> Append(h, nd.n),
     ret |-> [cls |-> k, n |-> Len(h) + 1, d |-> nd.d]]

\* the steps of __init__ after the loop "simplify numerator" wrote the dict
\* acc = _n of the heap h
obj_finish(k, h, acc, d) ==
    obj_assign(k, h,
        IF k = "SqrtFraction"
        THEN SqrtFraction_sort(aesthetics(short_fraction(drop_zeros(h[acc]), d)))
        ELSE SumOfRadicals_sort(aesthetics(short_fraction(drop_zeros(h[acc]), d))))

\* _n = defaultdict(int) and the loop "simplify numerator" of __init__, which
\* reads the dict oid and stores into _n
obj_simplify(k, h, oid) ==
    Append(h, IF k = "SqrtFraction"
              THEN SqrtFraction_simplify_numerator(h[oid], <<>>)
              ELSE SumOfRadicals_simplify_numerator(h[oid], <<>>))

\* k(n, d), n the dict oid of the heap h
obj_init(k, h, oid, d) ==
    IF IsRaised(New(k, PyDict(h[oid]), d))
    THEN [heap |-> h, ret |-> New(k, PyDict(h[oid]), d)]
    ELSE obj_finish(k, obj_simplify(k, h, oid), Len(h) + 1, d)

\* k(n, d), n a dict literal or comprehension with the items given
obj_init_items(k, h, items, d) == obj_init(k, Append(h, items), Len(h) + 1, d)

\* the dict nd.n of the heap nd.heap after n[key] += v
obj_iadd(nd, key, v) ==
    [nd.heap EXCEPT ![nd.n] = dict_iadd(nd.heap[nd.n], key, v)]

\* the two loops of __add__ on the new dict oid = n of the heap h
obj_add_loops(h, oid, self, other) ==
    [h EXCEPT ![oid] =
        iadd_scaled(iadd_scaled(h[oid], h[self.n], other.d),
                    h[other.n], self.d)]

\* the loops of __mul__ on the new dict oid = n of the heap h
obj_mul_loops(h, oid, self, other) ==
    [h EXCEPT ![oid] =
        IF self.cls = "SqrtFraction"
        THEN SqrtFraction_mul_outer(h[oid], h[self.n], h[other.n])
        ELSE SumOfRadicals_mul_outer(h[oid], h[self.n], h[other.n])]

\* the branch of __add__ for an int other, nd the dict n it starts from
obj_add_int(self, other, nd) ==
    obj_init(self.cls,
             obj_iadd(nd, IF self.cls = "SqrtFraction" THEN 1 ELSE <<1, 1>>,
                      other.v * self.d),
             nd.n, self.d)

\* self + other
obj_add(h, self, other) ==
    IF other.cls = self.cls
    THEN obj_init(self.cls, obj_add_loops(Append(h, <<>>), Len(h) + 1, self, other),
                  Len(h) + 1, self.d * other.d)
    ELSE IF other.cls = "int"
    THEN obj_add_int(self, other, defaultdict_copy(h, self.n))
    ELSE [heap |-> h, ret |-> Raise("TypeError")]

\* -self
obj_neg(h, self) == obj_init(self.cls, h, self.n, -self.d)

\* -other for the operand of __sub__: an instance or an int
obj_neg_operand(h, other) ==
    IF other.cls = "int" THEN [heap |-> h, ret |-> PyInt(-other.v)]
    ELSE obj_neg(h, other)

\* x.ret + other on the heap x.heap, x what -self or -other left
obj_then_add(x, other) == obj_add(x.heap, x.ret, other)

\* self + x.ret on the heap x.heap
obj_add_then(self, x) == obj_add(x.heap, self, x.ret)

\* self - other
obj_sub(h, self, other) == obj_add_then(self, obj_neg_operand(h, other))

\* other - self
obj_rsub(h, self, other) == obj_then_add(obj_neg(h, self), other)

\* self * other
obj_mul(h, self, other) ==
    IF other.cls = self.cls
    THEN obj_init(self.cls, obj_mul_loops(Append(h, <<>>), Len(h) + 1, self, other),
                  Len(h) + 1, self.d * other.d)
    ELSE IF other.cls = "int"
    THEN obj_init_items(self.cls, h, mul_values(h[self.n], other.v), self.d)
    ELSE [heap |-> h, ret |-> Raise("TypeError")]

\* what calls on instances the method made itself return: a new instance
\* for an instance v, v itself otherwise
obj_value(h, v) ==
    IF v.cls \in Classes THEN obj_assign(v.cls, h, v)
    ELSE [heap |-> h, ret |-> v]

\* ~self: SqrtFraction.__invert__ passes self.n to SqrtFraction(self.n) once
\* self has two terms or more, SumOfRadicals.__invert__ starts from
\* self*self.d; the rest is on its own instances
obj_invert(h, self) ==
    IF IsRaised(invert(deref(h, self)))
    THEN [heap |-> h, ret |-> invert(deref(h, self))]
    ELSE IF self.cls = "SumOfRadicals"
    THEN obj_value(obj_mul(h, self, PyInt(self.d)).heap, invert(deref(h, self)))
    ELSE IF Len(h[self.n]) > 1
    THEN obj_value(obj_init(self.cls, h, self.n, 1).heap, invert(deref(h, self)))
    ELSE obj_value(h, invert(deref(h, self)))

\* self * x.ret on the heap x.heap, x what ~other left
obj_mul_then(self, x) ==
    IF IsRaised(x.ret) THEN x ELSE obj_mul(x.heap, self, x.ret)

\* other == 0 at the head of __truediv__, other an instance or an int
obj_is_zero(h, other) ==
    IF other.cls = "SqrtFraction"
    THEN SqrtFraction_operand_is_zero(deref(h, other))
    ELSE SumOfRadicals_operand_is_zero(deref(h, other))

\* self / other
obj_truediv(h, self, other) ==
    IF obj_is_zero(h, other)
    THEN [heap |-> h, ret |-> Raise("ZeroDivisionError")]
    ELSE IF other.cls = self.cls
    THEN obj_mul_then(self, obj_invert(h, other))
    ELSE IF other.cls = "int"
    THEN obj_init(self.cls, h, self.n, self.d * other.v)
    ELSE [heap |-> h, ret |-> Raise("TypeError")]

\* x.ret * other on the heap x.heap, x what ~self left: an exception, a
\* float or a new instance
obj_inverse_mul(x, other) ==
    IF IsRaised(x.ret) THEN x
    ELSE IF x.ret.cls = "float"
    THEN [heap |-> x.heap, ret |-> float_mul(x.ret, other)]
    ELSE obj_mul(x.heap, x.ret, other)

\* other / self, other an int: (~self) * other
obj_rtruediv(h, self, other) == obj_inverse_mul(obj_invert(h, self), other)

\* reduce(mul, repeat(self, other), x.ret) on the heap x.heap
RECURSIVE obj_reduce_mul(_, _, _)
obj_reduce_mul(x, self, other) ==
    IF evaluated(x) /\ other = 0 THEN x
    ELSE obj_reduce_mul(obj_mul(x.heap, x.ret, self), self, other - 1)

\* k(1) on the heap h: the constructor makes the dict {1:1} of the int
obj_one(k, h) ==
    obj_init_items(k, h, << <<IF k = "SqrtFraction" THEN 1 ELSE <<1, 1>>, 1>> >>, 1)

\* x.ret ** other, other >= 0, on the heap x.heap
obj_power(x, other) ==
    IF IsRaised(x.ret) THEN x
    ELSE IF x.ret.cls = "float"
    THEN [heap |-> x.heap, ret |-> float_pow(x.ret, other)]
    ELSE obj_reduce_mul(obj_one(x.ret.cls, x.heap), x.ret, other)

\* self ** other, other an integer
obj_pow(h, self, other) ==
    IF other >= 0 THEN obj_power([heap |-> h, ret |-> self], other)
    ELSE obj_power(obj_invert(h, self), -other)

\* self < other: l = self - other, the loop is on l
obj_lt(h, self, other) ==
    IF IsRaised(lt(deref(h, self), deref(h, other)))
    THEN [heap |-> h, ret |-> lt(deref(h, self), deref(h, other))]
    ELSE [heap |-> obj_sub(h, self, other).heap,
          ret |-> lt(deref(h, self), deref(h, other))]

\* ==, is_integer, int, is_fraction, as_fraction: no dict is made or stored into
obj_read(h, self, other) ==
    [heap |-> h,
     ret |-> [cls |-> "tuple",
              v |-> <<eq(deref(h, self), deref(h, other)),
                      is_integer(deref(h, self)), int(deref(h, self)),
                      is_fraction(deref(h, self)), as_fraction(deref(h, self))>>]]

----------------------------------------------------------------------------
(* The program of the operand objects: two instances are built, a on the   *)
(* dict 1 and the other on the dict 2, and one method is called on a with  *)
(* a itself, the other instance or an int.  c keeps the dicts as they were *)
(* before the call, args is the heap the call leaves, res what it returns  *)
(* or raises.                                                              *)

\* the reference to the instance x whose numerator is the dict oid
ref(x, oid) == [cls |-> x.cls, n |-> oid, d |-> x.d]

PureInit ==
    /\ cls \in Classes
    /\ \E x \in LawOperands(cls), y \in LawOperands(cls) :
          /\ a = ref(x, 1)
          /\ b \in {ref(x, 1), ref(y, 2)} \cup IntOperands
          /\ c = <<x.n, y.n>>
    /\ args = c
    /\ op = "init"
    /\ res = None

Pure(o, other, r) ==
    /\ op = "init"
    /\ op' = o
    /\ b' = other
    /\ args' = r.heap
    /\ res' = r.ret
    /\ UNCHANGED <<cls, a, c>>

PureAdd == Pure("__add__", b, obj_add(args, a, b))

PureNeg == Pure("__neg__", b, obj_neg(args, a))

PureSub == Pure("__sub__", b, obj_sub(args, a, b))

PureRSub == b.cls = "int" /\ Pure("__rsub__", b, obj_rsub(args, a, b))

PureMul == Pure("__mul__", b, obj_mul(args, a, b))

PureInvert == Pure("__invert__", b, obj_invert(args, a))

PureTrueDiv == Pure("__truediv__", b, obj_truediv(args, a, b))

PureRTrueDiv == b.cls = "int" /\ Pure("__rtruediv__", b, obj_rtruediv(args, a, b))

PurePow ==
    \E k \in (-MaxPow)..MaxPow :
        Pure("__pow__", PyInt(k), obj_pow(args, a, k))

PureLt == Pure("__lt__", b, obj_lt(args, a, b))

PureRead == Pure("__eq__", b, obj_read(args, a, b))

PureNext ==
    \/ PureAdd
    \/ PureNeg
    \/ PureSub
    \/ PureRSub
    \/ PureMul
    \/ PureInvert
    \/ PureTrueDiv
    \/ PureRTrueDiv
    \/ PurePow
    \/ PureLt
    \/ PureRead

SpecPure == PureInit /\ [][PureNext]_vars

----------------------------------------------------------------------------
(* The program of SqrtFraction.__lt__, step by step.  c is the stack of    *)
(* the calls of __lt__ in progress, the call a < b first and the calls     *)
(* self < 0 that abs() makes through __ge__ above it.  A frame keeps l0,   *)
(* the value self - other of its call, l, the value of the name l, the     *)
(* pivot p and the number of passes of its loop, and while abs() is on,    *)
(* the two sides left and right and which of them abs() is taking.  args   *)
(* counts the steps taken.                                                 *)

\* the frame of the call self < other at l = self - other
lt_frame(self, other) ==
    [l0 |-> SqrtFraction_sub(self, other), l |-> SqrtFraction_sub(self, other),
     pc |-> "while", p |-> 0, iterations |-> 0, left |-> None, right |-> None]

\* the frame f with the pivot p chosen and the two sides split, at abs(l)
lt_split(f, p) ==
    [f EXCEPT !.pc = "abs(l)", !.p = p, !.iterations = @ + 1,
              !.left = SqrtFraction(PyDict(other_terms(f.l.n, p)), f.l.d),
              !.right = SqrtFraction(PyDict(pivot_terms(f.l.n, p)), f.l.d)]

\* self whatever its sign: the square then loses the sign
abs_unsigned(self, negative) == self

\* self if self>=0 else -self, negative what self < 0 returned
abs_of(self, negative) == IF negative THEN SqrtFraction_neg(self) ELSE self

\* the frame f with l*abs(l) for its left side, at abs(r)
lt_left_squared(f, negative) ==
    [f EXCEPT !.pc = "abs(r)",
              !.left = SqrtFraction_mul(f.left, abs_of(f.left, negative))]

\* the frame f after l, r = l*abs(l), r*abs(r)*p and l -= r
lt_right_squared(f, negative) ==
    [f EXCEPT !.pc = "while",
              !.l = SqrtFraction_sub(
                        f.left,
                        SqrtFraction_mul(
                            SqrtFraction_mul(f.right,
                                             abs_of(f.right, negative)),
                            PyInt(f.p))),
              !.left = None, !.right = None]

\* return l.as_fraction() < 0 of the frame f
lt_return(f) == Fraction_lt(SqrtFraction_as_fraction(f.l), 0)

\* the stack without its last frame, the one before it replaced by f
lt_pop(stack, f) == Append(SubSeq(stack, 1, Len(stack) - 2), f)

\* operands with the primes 2, 3 and 5 in their radicands
LtOperands ==
    {SqrtFraction(PyInt(0), 1),
     SqrtFraction(PyInt(2), 1),
     SqrtFraction(PyDict(<< <<1, 1>>, <<2, 1>> >>), 1),
     SqrtFraction(PyDict(<< <<2, 1>>, <<3, 1>> >>), 1),
     SqrtFraction(PyDict(<< <<6, 1>> >>), 1),
     SqrtFraction(PyDict(<< <<1, 1>>, <<2, -1>> >>), 2),
     SqrtFraction(PyDict(<< <<2, 1>>, <<3, 1>>, <<5, -1>> >>), 1),
     SqrtFraction(PyDict(<< <<1, -5>>, <<30, 1>> >>), 1),
     SqrtFraction(PyDict(<< <<5, 1>>, <<6, 1>> >>), 1)}

LtInit ==
    /\ cls = "SqrtFraction"
    /\ a \in LtOperands
    /\ b \in LtOperands \cup IntOperands
    /\ c = <<>>
    /\ op = "init"
    /\ args = 0
    /\ res = None

\* a < b is called: l = self - other
LtCall ==
    /\ op = "init"
    /\ op' = "__lt__"
    /\ c' = <<lt_frame(a, b)>>
    /\ args' = args + 1
    /\ UNCHANGED <<cls, a, b, res>>

\* the loop goes on: p, r and l are computed and abs(l) calls l >= 0
LtPivot ==
    /\ op = "__lt__"
    /\ c[Len(c)].pc = "while"
    /\ ~SqrtFraction_is_fraction(c[Len(c)].l)
    /\ c' = Append(lt_pop(Append(c, None),
                          lt_split(c[Len(c)], highest_factor(c[Len(c)].l))),
                   lt_frame(lt_split(c[Len(c)],
                                     highest_factor(c[Len(c)].l)).left,
                            PyInt(0)))
    /\ args' = args + 1
    /\ UNCHANGED <<cls, a, b, op, res>>

\* the call l < 0 of abs(l) returns: l*abs(l), and abs(r) calls r >= 0
LtAbsLeft ==
    /\ op = "__lt__"
    /\ Len(c) > 1
    /\ c[Len(c)].pc = "while"
    /\ SqrtFraction_is_fraction(c[Len(c)].l)
    /\ c[Len(c) - 1].pc = "abs(l)"
    /\ c' = Append(lt_pop(c, lt_left_squared(c[Len(c) - 1],
                                             lt_return(c[Len(c)]))),
                   lt_frame(c[Len(c) - 1].right, PyInt(0)))
    /\ args' = args + 1
    /\ UNCHANGED <<cls, a, b, op, res>>

\* the call r < 0 of abs(r) returns: r*abs(r)*p and l -= r
LtAbsRight ==
    /\ op = "__lt__"
    /\ Len(c) > 1
    /\ c[Len(c)].pc = "while"
    /\ SqrtFraction_is_fraction(c[Len(c)].l)
    /\ c[Len(c) - 1].pc = "abs(r)"
    /\ c' = lt_pop(c, lt_right_squared(c[Len(c) - 1], lt_return(c[Len(c)])))
    /\ args' = args + 1
    /\ UNCHANGED <<cls, a, b, op, res>>

\* the loop of the call a < b is over: return l.as_fraction() < 0
LtReturn ==
    /\ op = "__lt__"
    /\ Len(c) = 1
    /\ c[1].pc = "while"
    /\ SqrtFraction_is_fraction(c[1].l)
    /\ op' = "return"
    /\ res' = PyBool(lt_return(c[1]))
    /\ args' = args + 1
    /\ UNCHANGED <<cls, a, b, c>>

LtNext ==
    \/ LtCall
    \/ LtPivot
    \/ LtAbsLeft
    \/ LtAbsRight
    \/ LtReturn

SpecLt == LtInit /\ [][LtNext]_vars

\* the interpreter takes one more step of a call that has not returned;
\* args counts the steps taken
LtRun == op # "return" /\ args' = args + 1

\* a call that has not returned is run on: the interpreter does not stop
\* inside a call
SpecLtFair == SpecLt /\ WF_args(LtRun)

----------------------------------------------------------------------------
(* The canonical form, stated without the constructors' own helpers.       *)

\* m ** e, or cap + 1 once it exceeds cap
RECURSIVE PowCapped(_, _, _)
PowCapped(m, e, cap) ==
    IF e = 0 THEN 1
    ELSE IF PowCapped(m, e - 1, cap) > cap THEN cap + 1
    ELSE m * PowCapped(m, e - 1, cap)

\* no e-th power of an integer above 1 divides r
PowerFree(r, e) ==
    \A m \in 2..r : PowCapped(m, e, r) <= r => r % PowCapped(m, e, r) # 0

\* r is the g-th power of an integer
PerfectPower(r, g) == \E t \in 1..r : PowCapped(t, g, r) = r

\* the key of a SqrtFraction term is reduced: a square-free radicand
ReducedSqrt(k) == k >= 1 /\ PowerFree(k, 2)

\* the key of a SumOfRadicals term is reduced: the radicand free of n-th
\* powers and the degree minimal
ReducedRadical(k) ==
    /\ k[1] >= 1
    /\ k[2] >= 1
    /\ PowerFree(k[2], k[1])
    /\ \A g \in 2..k[1] : k[1] % g = 0 => ~PerfectPower(k[2], g)

\* the keys of the items n of the class k are reduced and strictly ascending
CanonicalKeys(k, n) ==
    IF k = "SqrtFraction"
    THEN /\ \A i \in DOMAIN n : ReducedSqrt(n[i][1])
         /\ \A i, j \in DOMAIN n : i < j => n[i][1] < n[j][1]
    ELSE /\ \A i \in DOMAIN n : ReducedRadical(n[i][1])
         /\ \A i, j \in DOMAIN n :
                i < j => \/ n[i][1][1] < n[j][1][1]
                         \/ /\ n[i][1][1] = n[j][1][1]
                            /\ n[i][1][2] < n[j][1][2]

\* x is an instance in canonical form
IsCanonical(x) ==
    /\ x.cls \in Classes
    /\ x.d > 0
    /\ \A i \in DOMAIN x.n : x.n[i][2] # 0
    /\ \A g \in 2..x.d : x.d % g # 0 \/ \E i \in DOMAIN x.n : x.n[i][2] % g # 0
    /\ CanonicalKeys(x.cls, x.n)

\* the zero value of the class k: the empty map over the denominator 1
Zero(k) == [cls |-> k, n |-> <<>>, d |-> 1]

\* C1: every instance the caller holds or gets back, from the constructor
\* or from a chain of add, negate, subtract, multiply, divide by an int and
\* power, is in canonical form: denominator above 0, no zero coefficient,
\* coefficients and denominator coprime (zero is the empty map over 1), keys
\* reduced and strictly ascending.
C1_CanonicalForm ==
    /\ IsCanonical(a)
    /\ res.cls \in Classes => IsCanonical(res)
    /\ res.cls \in Classes /\ Len(res.n) = 0 => res = Zero(cls)

\* a two-term result over the denominator 2 of a negative power
C1_Witness ==
    /\ op = "__pow__"
    /\ b.v < 0
    /\ res.cls \in Classes
    /\ Len(res.n) = 2
    /\ res.d = 2

----------------------------------------------------------------------------
(* The raw rewrites and the reducer, on SpecBuild.                         *)

True == PyBool(TRUE)

\* C2: the instance built from a valid raw input equals, by == and by its
\* fields, the instance built after (i) every coefficient and d are multiplied
\* by the same nonzero integer, negative ones included, (ii) the square (the
\* n-th power) of m is moved between a radicand and its coefficient, (iii) a
\* coefficient is split across raw keys of the same reduced term, and (iv) the
\* instance is rebuilt from its own n and d; {8:1}/1 is built as {2:2}/1 and
\* 6/4 as {1:3}/2.
C2_UniqueRepresentation ==
    /\ op \in {"scale", "extract", "split", "rebuild"}
           => b.cls = cls /\ b = a /\ res = True
    /\ op = "__init__" /\ cls = "SqrtFraction"
           /\ args = <<PyDict(<< <<8, 1>> >>), 1>>
           => a = [cls |-> cls, n |-> << <<2, 2>> >>, d |-> 1]
    /\ op = "__init__" /\ cls = "SqrtFraction" /\ args = <<PyInt(6), 4>>
           => a = [cls |-> cls, n |-> << <<1, 3>> >>, d |-> 2]
    /\ op = "__init__" /\ cls = "SumOfRadicals"
           /\ args = <<PyDict(<< << <<2, 8>>, 1>> >>), 1>>
           => a = [cls |-> cls, n |-> << << <<2, 2>>, 2>> >>, d |-> 1]
    /\ op = "__init__" /\ cls = "SumOfRadicals" /\ args = <<PyInt(6), 4>>
           => a = [cls |-> cls, n |-> << << <<1, 1>>, 3>> >>, d |-> 2]

\* a cube moved out of the radicand of one of two terms of a SumOfRadicals
\* over a negative denominator
C2_Witness ==
    /\ op = "extract"
    /\ cls = "SumOfRadicals"
    /\ args[2] < 0
    /\ Len(a.n) = 2
    /\ \E i \in DOMAIN c[1].v : c[1].v[i][1][1] = 3 /\ c[1].v[i][1][2] > 8
    /\ b = a

\* C3: simplify_radical(n, r) = (s, n', r') has s >= 1, n' a divisor of n,
\* s^n * r'^(n/n') = r, r' free of n'-th powers and no g-th power for a divisor
\* g > 1 of n', and (s, 1, 1) for r a perfect n-th power, 1 included; for the
\* degree 2, f = isqrt(k // core(k)) and c = core(k) have f^2 * c = k with c
\* square-free.
C3_TermReducer ==
    op = "simplify_radical" =>
        IF cls = "SumOfRadicals"
        THEN /\ res[1] >= 1
             /\ res[2] >= 1
             /\ res[3] >= 1
             /\ b[1] % res[2] = 0
             /\ PowCapped(res[1], b[1], b[2])
                    * PowCapped(res[3], b[1] \div res[2], b[2]) = b[2]
             /\ PowerFree(res[3], res[2])
             /\ \A g \in 2..res[2] :
                    res[2] % g = 0 => ~PerfectPower(res[3], g)
             /\ PerfectPower(b[2], b[1]) => res[2] = 1 /\ res[3] = 1
        ELSE /\ res[1] >= 1
             /\ res[2] >= 1
             /\ res[1] * res[1] * res[2] = b
             /\ PowerFree(res[2], 2)

\* the fourth root of 36 is the square root of 6
C3_Witness ==
    /\ op = "simplify_radical"
    /\ cls = "SumOfRadicals"
    /\ b = <<4, 36>>
    /\ res = <<1, 2, 6>>

\* C10: the instance built from the integers (i, d), d # 0 of either sign, is
\* a fraction and as_fraction() is i/d in lowest terms over a positive
\* denominator; built from (i, 1) it is an integer, int() is i and it == i.
C10_RationalRoundTrip ==
    op = "evaluate" =>
        /\ res.is_fraction
        /\ res.as_fraction.cls = "Fraction"
        /\ res.as_fraction.denominator > 0
        /\ res.as_fraction.numerator * args[2]
               = args[1].v * res.as_fraction.denominator
        /\ \A g \in 2..res.as_fraction.denominator :
               \/ res.as_fraction.denominator % g # 0
               \/ res.as_fraction.numerator % g # 0
        /\ args[2] = 1 =>
               /\ res.is_integer
               /\ res.int = args[1]
               /\ res.eq = True

\* 4/-6 is read back as -2/3
C10_Witness ==
    /\ op = "evaluate"
    /\ args = <<PyInt(4), -6>>
    /\ res.as_fraction.numerator = -2
    /\ res.as_fraction.denominator = 3
    /\ ~res.is_integer

----------------------------------------------------------------------------
(* The laws of the arithmetic, on SpecLaws.                                *)

\* the value 1 of the class k
One(k) ==
    [cls |-> k,
     n |-> << <<IF k = "SqrtFraction" THEN 1 ELSE <<1, 1>>, 1>> >>,
     d |-> 1]

ZeroDivisionError == Raise("ZeroDivisionError")

\* x is the instance y, by == and by its fields
Same(x, y) ==
    /\ x.cls \in Classes
    /\ y.cls = x.cls
    /\ x = y
    /\ eq(x, y) = True

\* C4: for a SqrtFraction a other than zero, ~a is a canonical SqrtFraction
\* and a * ~a == 1 by == and by its fields; ~(1 + sqrt 2) is -1 + sqrt 2.
C4_SqrtFractionInverse ==
    cls = "SqrtFraction" /\ a # Zero(cls) =>
        /\ op = "~a" => res.cls = cls /\ IsCanonical(res)
        /\ op = "~a" /\ a = [cls |-> cls, n |-> << <<1, 1>>, <<2, 1>> >>,
                             d |-> 1]
               => res = [cls |-> cls, n |-> << <<1, -1>>, <<2, 1>> >>,
                         d |-> 1]
        /\ op = "a * ~a" => Same(res, One(cls))

\* the product of (3 - sqrt 2)/4 and its inverse
C4_Witness ==
    /\ cls = "SqrtFraction"
    /\ op = "a * ~a"
    /\ a = [cls |-> cls, n |-> << <<1, 3>>, <<2, -1>> >>, d |-> 4]
    /\ res = One(cls)

\* C5: for a SumOfRadicals a other than zero, the purely rational ones
\* included, ~a is a canonical SumOfRadicals, and a / a == 1 and a * ~a == 1
\* by == and by their fields.
C5_SumOfRadicalsInverse ==
    cls = "SumOfRadicals" /\ a # Zero(cls) =>
        /\ op = "~a" => res.cls = cls /\ IsCanonical(res)
        /\ op = "a * ~a" => Same(res, One(cls))
        /\ op = "a / a" => Same(res, One(cls))

\* the inverse of the SumOfRadicals 2 is the float 0.5
C5_Witness ==
    /\ cls = "SumOfRadicals"
    /\ op = "~a"
    /\ a = [cls |-> cls, n |-> << << <<1, 1>>, 2>> >>, d |-> 1]
    /\ res = [cls |-> "float", numerator |-> 1, denominator |-> 2]

\* C7: inverting zero, dividing by the zero of the class or by the int 0,
\* dividing an int by zero and raising zero to a negative power each raise
\* ZeroDivisionError, in both classes.
C7_ZeroDivision ==
    /\ op = "~a" /\ a = Zero(cls) => res = ZeroDivisionError
    /\ op = "a / a" /\ a = Zero(cls) => res = ZeroDivisionError
    /\ op = "a / b" /\ b \in {Zero(cls), PyInt(0)} => res = ZeroDivisionError
    /\ op = "i / a" /\ a = Zero(cls) => res = ZeroDivisionError
    /\ op = "a ** k" /\ a = Zero(cls) => res = ZeroDivisionError

\* a SumOfRadicals with two terms divided by the int 0
C7_Witness ==
    /\ cls = "SumOfRadicals"
    /\ op = "a / b"
    /\ Len(a.n) = 2
    /\ b = PyInt(0)
    /\ res = ZeroDivisionError

\* C8: a * (b + c) == a * b + a * c by == and by the fields, for the
\* instances a, b, c of one class, of mixed degrees for SumOfRadicals.
C8_Distributivity ==
    op = "a * (b + c)" => Same(res[1], res[2])

\* a square root times the sum of a cube root and the value 1 + cube root
C8_Witness ==
    /\ op = "a * (b + c)"
    /\ cls = "SumOfRadicals"
    /\ a.n = << << <<2, 2>>, 1>> >>
    /\ b.n = << << <<1, 1>>, 1>>, << <<3, 2>>, 1>> >>
    /\ c.n = << << <<2, 3>>, 1>>, << <<3, 2>>, -1>> >>
    /\ \E i \in DOMAIN res[1].n : res[1].n[i][1][1] = 6
    /\ res[1] = res[2]

\* C9: a + b == b + a, (a + b) + c == a + (b + c), a * b == b * a and
\* (a * b) * c == a * (b * c) by == and by the fields, for the instances a, b,
\* c of one class; a product of terms of the degrees nA and nB has a term of
\* the degree lcm(nA, nB) before it is reduced.
C9_CommutativeAssociative ==
    /\ op = "a + b, a * b" => Same(res[1], res[2]) /\ Same(res[3], res[4])
    /\ op = "(a + b) + c, (a * b) * c"
           => Same(res[1], res[2]) /\ Same(res[3], res[4])
    /\ op = "a + b, a * b" /\ cls = "SumOfRadicals"
           /\ a.n = << << <<2, 2>>, 1>> >> /\ a.d = 1
           /\ b.n = << << <<1, 1>>, 1>>, << <<3, 2>>, 1>> >> /\ b.d = 1
           => res[3] = [cls |-> cls,
                        n |-> << << <<2, 2>>, 1>>, << <<6, 32>>, 1>> >>,
                        d |-> 1]

\* the product of three operands of which two have a denominator
C9_Witness ==
    /\ op = "(a + b) + c, (a * b) * c"
    /\ cls = "SqrtFraction"
    /\ a.d = 4
    /\ Len(b.n) = 2
    /\ c.d = 4
    /\ res[4].cls = cls
    /\ Len(res[4].n) = 2
    /\ res[3] = res[4]

----------------------------------------------------------------------------
(* The order of SqrtFraction against the real values, enclosed between     *)
(* integers: the square roots are taken to 1/Precision.                    *)

Precision == 100

\* the floor of Precision * sqrt(k)
ScaledRoot(k) ==
    CHOOSE s \in 0..(Precision * k) :
        /\ s * s <= Precision * Precision * k
        /\ (s + 1) * (s + 1) > Precision * Precision * k

\* the integer at or above Precision * sqrt(k)
ScaledRootCeiling(k) ==
    IF ScaledRoot(k) * ScaledRoot(k) = Precision * Precision * k
    THEN ScaledRoot(k) ELSE ScaledRoot(k) + 1

\* the numerator and the denominator of an instance or an int
TermsOf(x) == IF x.cls = "int" THEN << <<1, x.v>> >> ELSE x.n

DenominatorOf(x) == IF x.cls = "int" THEN 1 ELSE x.d

\* a lower bound of Precision * (the sum of the terms n)
RECURSIVE LowerBound(_)
LowerBound(n) ==
    IF n = <<>> THEN 0
    ELSE LowerBound(Tail(n))
             + (IF Head(n)[2] >= 0
                THEN Head(n)[2] * ScaledRoot(Head(n)[1])
                ELSE Head(n)[2] * ScaledRootCeiling(Head(n)[1]))

\* an upper bound of Precision * (the sum of the terms n)
RECURSIVE UpperBound(_)
UpperBound(n) ==
    IF n = <<>> THEN 0
    ELSE UpperBound(Tail(n))
             + (IF Head(n)[2] >= 0
                THEN Head(n)[2] * ScaledRootCeiling(Head(n)[1])
                ELSE Head(n)[2] * ScaledRoot(Head(n)[1]))

\* the value of x is below the value of y
Below(x, y) ==
    UpperBound(TermsOf(x)) * DenominatorOf(y)
        < LowerBound(TermsOf(y)) * DenominatorOf(x)

\* x and y are the same terms over the same denominator
SameTerms(x, y) ==
    /\ DenominatorOf(x) = DenominatorOf(y)
    /\ SelectSeq(TermsOf(x), NonZero) = SelectSeq(TermsOf(y), NonZero)

\* C6: for a SqrtFraction a and b a SqrtFraction or an int, a < b is True
\* exactly when the real value of a is below the one of b, and exactly one of
\* a < b, a == b, b < a holds; sqrt 2 + sqrt 3 > sqrt 6.
C6_ExactOrder ==
    cls = "SqrtFraction" /\ op \in {"a < b", "a < i"} =>
        /\ Below(a, b) \/ Below(b, a) \/ SameTerms(a, b)
        /\ res[1] = PyBool(Below(a, b))
        /\ res[2] = PyBool(SameTerms(a, b))
        /\ op = "a < b" => res[3] = PyBool(Below(b, a))
        /\ op = "a < b" /\ a.n = << <<6, 1>> >> /\ a.d = 1
               /\ b.n = << <<2, 1>>, <<3, 1>> >> /\ b.d = 1
               => res = <<True, PyBool(FALSE), PyBool(FALSE)>>

\* 1 + sqrt 2 is found below sqrt 6, 35 thousandths above it
C6_Witness ==
    /\ cls = "SqrtFraction"
    /\ op = "a < b"
    /\ a.n = << <<1, 1>>, <<2, 1>> >>
    /\ a.d = 1
    /\ b.n = << <<6, 1>> >>
    /\ b.d = 1
    /\ res = <<True, PyBool(FALSE), PyBool(FALSE)>>

----------------------------------------------------------------------------
(* Claims on the program of the operand objects.                           *)

\* what the method op returns for the operands taken by value
value_of(o, self, other) ==
    IF o = "__add__" THEN add(self, other)
    ELSE IF o = "__neg__" THEN neg(self)
    ELSE IF o = "__sub__" THEN sub(self, other)
    ELSE IF o = "__rsub__" THEN rsub(self, other)
    ELSE IF o = "__mul__" THEN mul(self, other)
    ELSE IF o = "__invert__" THEN invert(self)
    ELSE IF o = "__truediv__" THEN truediv(self, other)
    ELSE IF o = "__rtruediv__" THEN rtruediv(self, other)
    ELSE IF o = "__pow__" THEN pow(self, other.v)
    ELSE IF o = "__lt__" THEN lt(self, other)
    ELSE obj_read(c, a, b).ret

\* the methods on the objects return what the methods on the values return
ObjectsAgree ==
    op # "init" => deref(args, res) = value_of(op, deref(c, a), deref(c, b))

\* C11: after every call - add, negate, subtract, multiply, divide, invert,
\* power, comparison, equality, predicates and extraction, with an instance
\* or an int as the other operand, whether it returned or raised - the
\* numerator dicts of the operands hold the items they held before the call,
\* the operands have the denominators they had, and an instance returned has
\* a dict of its own, allocated by the call.
C11_Pure ==
    op # "init" =>
        /\ Len(args) >= Len(c)
        /\ \A i \in DOMAIN c : args[i] = c[i]
        /\ res.cls \in Classes => res.n \in (DOMAIN args) \ (DOMAIN c)

\* a + i for an int i # 0 returned a new instance with other items than a's,
\* and a's dict is as it was
C11_Witness ==
    /\ op = "__add__"
    /\ b.cls = "int" /\ b.v # 0
    /\ res.cls \in Classes
    /\ args[res.n] # c[a.n]
    /\ args[a.n] = c[a.n]

----------------------------------------------------------------------------
(* The int operand, on SpecOperands.                                       *)

\* C12: for every canonical a of either class and every int i, with build(i)
\* the instance of a's class built from i: a + i == i + a == a + build(i),
\* a - i == a - build(i), i - a == build(i) - a,
\* a * i == i * a == a * build(i), and for i # 0, a / i == a / build(i) and,
\* for a # 0, i / a == build(i) / a.
C12_IntOperand ==
    op = "a + i" =>
        /\ Same(res.add, res.add_built) /\ Same(res.radd, res.add_built)
        /\ Same(res.sub, res.sub_built)
        /\ Same(res.rsub, res.rsub_built)
        /\ Same(res.mul, res.mul_built) /\ Same(res.rmul, res.mul_built)
        /\ b.v # 0 => Same(res.truediv, res.truediv_built)
        /\ b.v # 0 /\ a # Zero(cls) => Same(res.rtruediv, res.rtruediv_built)

\* (1 + cbrt 2) / 2 is a SumOfRadicals, (1 + cbrt 2) / SumOfRadicals(2) raises
\* TypeError: ~SumOfRadicals(2) is a float
C12_Witness ==
    /\ op = "a + i"
    /\ cls = "SumOfRadicals"
    /\ a = [cls |-> cls, n |-> << << <<1, 1>>, 1>>, << <<3, 2>>, 1>> >>, d |-> 1]
    /\ b = PyInt(2)
    /\ res.truediv = [cls |-> cls, n |-> a.n, d |-> 2]
    /\ res.truediv_built = Raise("TypeError")

----------------------------------------------------------------------------
(* The powers, on SpecOperands.                                            *)

\* C13: for every canonical a and int k >= 0, a ** 0 == 1, zero included, and
\* a ** (k+1) == (a ** k) * a, so that a ** k is the k-fold product of a
\* from 1; for k > 0 and a # 0, a ** -k is (~a) ** k, a value of a's class,
\* and (a ** -k) * (a ** k) == 1.
C13_Power ==
    op = "a ** k * a" =>
        /\ b.v = 0 => Same(res.pow, One(cls))
        /\ Same(res.pow_next, res.pow_mul)
        /\ b.v > 0 /\ a # Zero(cls) =>
               /\ res.neg = res.inverse_pow
               /\ res.neg.cls = cls
               /\ Same(res.neg_mul, One(cls))

\* SumOfRadicals(2) ** -2 is the float 0.25, and its product with
\* SumOfRadicals(2) ** 2 raises TypeError
C13_Witness ==
    /\ op = "a ** k * a"
    /\ cls = "SumOfRadicals"
    /\ a = [cls |-> cls, n |-> << << <<1, 1>>, 2>> >>, d |-> 1]
    /\ b = PyInt(2)
    /\ res.pow = [cls |-> cls, n |-> << << <<1, 1>>, 4>> >>, d |-> 1]
    /\ res.neg = [cls |-> "float", numerator |-> 1, denominator |-> 4]
    /\ res.neg_mul = Raise("TypeError")

----------------------------------------------------------------------------
(* The loop of SqrtFraction.__lt__, on SpecLt.                             *)

\* the frame f has the largest prime of the radicands of its l for pivot
LargestPrime(f) ==
    /\ f.p \in radicand_primes(f.l)
    /\ \A q \in radicand_primes(f.l) : q <= f.p

\* in every call of __lt__ in progress: while abs() is on, the pivot is the
\* largest prime of the radicands of l; after a pass, no radicand of the
\* new l has the pivot or a larger prime; a call made through abs() is on a
\* value whose primes are all below the caller's pivot; and the passes of
\* each loop and the depth of the calls are at most the number of the primes
\* of the radicands of self - other of the call a < b
C14_Bounds ==
    op # "init" =>
        /\ \A i \in DOMAIN c :
              /\ c[i].pc # "while" => LargestPrime(c[i])
              /\ c[i].pc = "while" /\ c[i].iterations > 0 =>
                     \A q \in radicand_primes(c[i].l) : q < c[i].p
              /\ i > 1 => \A q \in radicand_primes(c[i].l0) : q < c[i - 1].p
              /\ c[i].iterations <= Cardinality(radicand_primes(c[i].l0))
              /\ c[i].iterations <= Cardinality(radicand_primes(c[1].l0))
        /\ Len(c) - 1 <= Cardinality(radicand_primes(c[1].l0))

\* C14: the loop of SqrtFraction.__lt__ terminates for every pair of
\* operands - the call a < b returns - and all along the pivot is the
\* largest prime of the radicands, the largest prime goes down at each
\* pass, the calls through abs() see smaller primes only, and the passes and
\* the depth of the calls are bounded by the number of the primes of the
\* radicands of self - other.
C14_Terminates == []C14_Bounds /\ <>(op = "return")

\* 2 < sqrt 2 + sqrt 3 - sqrt 5 returned False after three passes, one for
\* each of the primes 5, 3 and 2
C14_Witness ==
    /\ op = "return"
    /\ a.n = << <<1, 2>> >>
    /\ b.cls = cls
    /\ b.n = << <<2, 1>>, <<3, 1>>, <<5, -1>> >>
    /\ radicand_primes(c[1].l0) = {2, 3, 5}
    /\ c[1].iterations = 3
    /\ res = PyBool(FALSE)

\* the real value of x is below zero, above zero
Negative(x) == Below(x, PyInt(0))

Positive(x) == Below(PyInt(0), x)

\* x and y are both below zero, both zero or both above zero
SameSign(x, y) ==
    \/ Negative(x) /\ Negative(y)
    \/ x.n = <<>> /\ y.n = <<>>
    \/ Positive(x) /\ Positive(y)

\* C15: in every call of __lt__ in progress, at every pass of its loop and at
\* its exit, where l is rational, the value l has the sign of self - other of
\* the call; and the call a < b returns True exactly when a - b is negative.
C15_SignPreserved ==
    /\ op # "init" => \A i \in DOMAIN c : SameSign(c[i].l, c[i].l0)
    /\ op = "return" => res = PyBool(Negative(c[1].l0))

\* 1 + sqrt 2 < sqrt 6: l is 1 + sqrt 2 - sqrt 6 at first, below zero, and
\* -3 + 2 sqrt 2 after the pass of the pivot 3, below zero as well
C15_Witness ==
    /\ op = "__lt__"
    /\ Len(c) = 1
    /\ c[1].pc = "while"
    /\ c[1].p = 3
    /\ c[1].l0 = [cls |-> cls, n |-> << <<1, 1>>, <<2, 1>>, <<6, -1>> >>, d |-> 1]
    /\ c[1].l = [cls |-> cls, n |-> << <<1, -3>>, <<2, 2>> >>, d |-> 1]
    /\ Negative(c[1].l0)
    /\ Negative(c[1].l)

----------------------------------------------------------------------------
(* The product of the conjugates, on SpecOperands.                         *)

\* C16: for a SqrtFraction x of two terms or more, the product of the
\* numerator of x over 1 with all its variants of other signs on the terms
\* after the first has no radical term, has the denominator 1 and is not
\* zero: int() of it is an int other than 0 and ~x raises neither ValueError
\* nor ZeroDivisionError.
C16_IntegerNorm ==
    op = "int(r * SqrtFraction(n))" =>
        /\ res.norm.cls = cls
        /\ keys(res.norm.n) = {1}
        /\ res.norm.d = 1
        /\ res.int.cls = "int"
        /\ res.int.v # 0
        /\ res.int.v = res.norm.n[1][2]
        /\ res.inverse.cls = cls

\* the eight variants of 2 - sqrt 2 - sqrt 3 + sqrt 6 multiply to -191
C16_Witness ==
    /\ op = "int(r * SqrtFraction(n))"
    /\ b.n = << <<1, 2>>, <<2, -1>>, <<3, -1>>, <<6, 1>> >>
    /\ b.d = 1
    /\ res.norm = [cls |-> cls, n |-> << <<1, -191>> >>, d |-> 1]
    /\ res.int = PyInt(-191)

====
